---- MODULE Spec2Model ----
(***************************************************************************)
(* AnnotateForge: the collaboration core of the backend.                   *)
(*                                                                         *)
(*   LockService         backend/app/services/lock_service.py              *)
(*   RedisPresenceStore  backend/app/services/redis_presence.py            *)
(*   ConnectionManager   backend/app/services/connection_manager.py        *)
(*   websocket handler   backend/app/api/routes/collaboration.py           *)
(*                                                                         *)
(* The lock table lives in a relational database, the presence hashes in   *)
(* Redis.  Each service is modelled with its own clock and its own         *)
(* specification; a specification leaves the other service's variables     *)
(* unchanged.                                                              *)
(*                                                                         *)
(*   SpecLock      the lock service, one call at a time                    *)
(*   SpecLockConc  acquire_lock run by several worker processes whose      *)
(*                 query and commit steps interleave                       *)
(*   SpecPresence  the presence store, one call at a time                  *)
(*   SpecPresenceConc  the presence store called by several worker         *)
(*                 processes whose Redis commands interleave               *)
(*   SpecRegistry  the connection manager of one process: broadcasts whose *)
(*                 sends interleave with connects and disconnects          *)
(*   SpecSession   the websocket handlers of one process and their sweep   *)
(*                 tasks, over the registry and the presence store         *)
(*   SpecFlow      the same handlers and tasks with the messages they send *)
(*                 and with the exceptions raised by bad messages and by   *)
(*                 the presence store; SpecFlowFair adds that handlers and *)
(*                 tasks keep running                                      *)
(***************************************************************************)
EXTENDS Integers, FiniteSets, Sequences, TLC

VARIABLES
    locks,      \* the image_locks table: a set of rows
    utcnow,     \* datetime.utcnow(), in minutes
    ret,        \* what the last LockService call returned (and what it read)
    acq,        \* per worker process: the acquire_lock call it is running
    hashes,     \* Redis: image id -> the hash stored at presence:image:{id}
    ttl,        \* Redis: image id -> instant at which the key expires, or NoTTL
    clock,      \* time.time(), in seconds
    hist,       \* history of each (image, user), kept for the properties
    pret,       \* what the last RedisPresenceStore call returned
    pcalls,     \* per worker process: the RedisPresenceStore call it is running
    active_connections, \* ConnectionManager: image id -> set of websockets
    connection_info,    \* ConnectionManager: websocket -> its image and user
    opened,     \* the websockets a handler was started for
    bcast,      \* the broadcast_to_image call in progress, or the last one
    sret,       \* the last send_personal_message call
    sess,       \* per websocket: its websocket_collaboration handler
    out,        \* what the last handler or sweep step sent, and to whom
    owed        \* per websocket: the removed users it was not told about

lockVars == <<locks, utcnow, ret>>
concVars == <<acq>>
presenceVars == <<hashes, ttl, clock, hist, pret>>
pconcVars == <<pcalls>>
regVars == <<active_connections, connection_info, opened, bcast, sret>>
sessVars == <<sess>>
flowVars == <<out, owed>>
vars == <<locks, utcnow, ret, acq, hashes, ttl, clock, hist, pret, pcalls,
         active_connections, connection_info, opened, bcast, sret, sess,
         out, owed>>

----------------------------------------------------------------------------
(* Bounds of the model.                                                    *)

\* The database clock advances in steps of TickMinutes, MaxTicks times.
TickMinutes == 15
MaxTicks == 4
\* Primary keys available to image_locks rows.
MaxRows == 4

----------------------------------------------------------------------------
(* Users and images.                                                       *)

UserIds == {"u1", "u2", "u3"}

\* users.username
Username == [u \in UserIds |->
                CASE u = "u1" -> "alice" [] u = "u2" -> "bob" [] u = "u3" -> "carol"]

\* users.is_admin
IsAdmin(u) == u = "u3"

\* Rows of the images table, and the ids a request may carry.
Images == {"img1", "img2"}
ImageIds == Images \cup {"missing"}

NoLock == [id |-> 0, image_id |-> "", locked_by |-> "nobody", expires_at |-> 0]
NoUser == "nobody"
NoError == <<>>

\* db.query(User).filter(User.id == uid).first(), then its username or "Unknown"
UsernameOf(uid) == IF uid \in UserIds THEN Username[uid] ELSE "Unknown"

----------------------------------------------------------------------------
(* LockService                                                             *)

LOCK_DURATION_MINUTES == 30

\* The table's constraint: image_locks.image_id is unique.
UniqueImageId == TRUE

RowsFor(table, image_id) == {l \in table : l.image_id = image_id}

\* db.query(ImageLock).filter(ImageLock.image_id == image_id).first():
\* the possible results (any matching row, there being no ORDER BY)
QueryLock(table, image_id) ==
    IF RowsFor(table, image_id) = {} THEN {NoLock} ELSE RowsFor(table, image_id)

\* The row with primary key id, as a set of zero or one rows.
RowById(table, id) == {l \in table : l.id = id}

\* A primary key that no row has and that no session still refers to.
FreshId(table, referenced) ==
    LET free == (1..MaxRows) \ ({l.id : l \in table} \cup referenced)
    IN  IF free = {} THEN 0 ELSE CHOOSE n \in free : \A m \in free : n <= m

\* existing_lock.expires_at < now, in acquire_lock
AcquireExpired(lock, now) == lock.expires_at < now

\* lock.expires_at < datetime.utcnow(), in get_lock
GetExpired(lock, now) == lock.expires_at < now

\* ImageLock.expires_at < datetime.utcnow(), the filter of cleanup_expired_locks
CleanupExpiredFilter(lock, now) == lock.expires_at < now

Outcome(table, ok, lock, error) ==
    [table |-> table, ok |-> ok, lock |-> lock, error |-> error]

\* db.add(lock); db.commit(): the INSERT is refused when it would break the
\* unique constraint, and the transaction is rolled back.
InsertLock(before, table, row) ==
    IF UniqueImageId /\ RowsFor(table, row.image_id) # {}
    THEN Outcome(before, FALSE, NoLock, <<"IntegrityError">>)
    ELSE Outcome(table \cup {row}, TRUE, row, NoError)

\* Plausible bug: an expired lock is not deleted before the new one is added.
AcquireWriteKeepExpired(table, image_found, existing, image_id, user, now, id) ==
    IF ~image_found THEN Outcome(table, FALSE, NoLock, <<"Image not found">>)
    ELSE IF existing # NoLock /\ ~AcquireExpired(existing, now)
              /\ existing.locked_by = user
    THEN LET row == [existing EXCEPT !.expires_at = now + LOCK_DURATION_MINUTES]
         IN  Outcome((table \ RowById(table, existing.id)) \cup {row}, TRUE, row, NoError)
    ELSE IF existing # NoLock /\ ~AcquireExpired(existing, now)
    THEN Outcome(table, FALSE, existing,
                 <<"Image is locked by", UsernameOf(existing.locked_by)>>)
    ELSE InsertLock(table, table,
                    [id |-> id, image_id |-> image_id, locked_by |-> user,
                     expires_at |-> now + LOCK_DURATION_MINUTES])

\* Plausible bug: an expired lock is taken over by updating its row in place.
AcquireWriteTakeover(table, image_found, existing, image_id, user, now, id) ==
    IF ~image_found THEN Outcome(table, FALSE, NoLock, <<"Image not found">>)
    ELSE IF existing # NoLock
              /\ (AcquireExpired(existing, now) \/ existing.locked_by = user)
    THEN IF RowById(table, existing.id) = {}
         THEN Outcome(table, FALSE, NoLock, <<"StaleDataError">>)
         ELSE LET row == [existing EXCEPT !.locked_by = user,
                                          !.expires_at = now + LOCK_DURATION_MINUTES]
              IN  Outcome((table \ RowById(table, existing.id)) \cup {row},
                          TRUE, row, NoError)
    ELSE IF existing # NoLock
    THEN Outcome(table, FALSE, existing,
                 <<"Image is locked by", UsernameOf(existing.locked_by)>>)
    ELSE InsertLock(table, table,
                    [id |-> id, image_id |-> image_id, locked_by |-> user,
                     expires_at |-> now + LOCK_DURATION_MINUTES])

\* Plausible bug: a lock held by someone else is handed to the caller.
AcquireWriteSteal(table, image_found, existing, image_id, user, now, id) ==
    IF ~image_found THEN Outcome(table, FALSE, NoLock, <<"Image not found">>)
    ELSE IF existing # NoLock /\ ~AcquireExpired(existing, now)
    THEN LET row == [existing EXCEPT !.locked_by = user,
                                     !.expires_at = now + LOCK_DURATION_MINUTES]
         IN  Outcome((table \ RowById(table, existing.id)) \cup {row}, TRUE, row, NoError)
    ELSE InsertLock(table, table \ RowById(table, existing.id),
                    [id |-> id, image_id |-> image_id, locked_by |-> user,
                     expires_at |-> now + LOCK_DURATION_MINUTES])

\* Plausible bug: re-acquiring one's own lock is refused.
AcquireWriteNoSelfRefresh(table, image_found, existing, image_id, user, now, id) ==
    IF ~image_found THEN Outcome(table, FALSE, NoLock, <<"Image not found">>)
    ELSE IF existing # NoLock /\ ~AcquireExpired(existing, now)
    THEN Outcome(table, FALSE, existing,
                 <<"Image is locked by", UsernameOf(existing.locked_by)>>)
    ELSE InsertLock(table, table \ RowById(table, existing.id),
                    [id |-> id, image_id |-> image_id, locked_by |-> user,
                     expires_at |-> now + LOCK_DURATION_MINUTES])

\* Plausible bug: an expired lock of another user still blocks the caller.
AcquireWriteNoLazyExpiry(table, image_found, existing, image_id, user, now, id) ==
    IF ~image_found THEN Outcome(table, FALSE, NoLock, <<"Image not found">>)
    ELSE IF existing # NoLock /\ existing.locked_by = user
    THEN IF RowById(table, existing.id) = {}
         THEN Outcome(table, FALSE, NoLock, <<"StaleDataError">>)
         ELSE LET row == [existing EXCEPT !.expires_at = now + LOCK_DURATION_MINUTES]
              IN  Outcome((table \ RowById(table, existing.id)) \cup {row},
                          TRUE, row, NoError)
    ELSE IF existing # NoLock
    THEN Outcome(table, FALSE, existing,
                 <<"Image is locked by", UsernameOf(existing.locked_by)>>)
    ELSE InsertLock(table, table,
                    [id |-> id, image_id |-> image_id, locked_by |-> user,
                     expires_at |-> now + LOCK_DURATION_MINUTES])

\* acquire_lock from "now = datetime.utcnow()" to its return, given what its
\* two queries read (image_found, existing): the branch on the existing lock,
\* then the creation of the new one.  id is the new row's primary key.
AcquireWrite(table, image_found, existing, image_id, user, now, id) ==
    IF ~image_found THEN Outcome(table, FALSE, NoLock, <<"Image not found">>)
    ELSE IF existing # NoLock /\ ~AcquireExpired(existing, now)
              /\ existing.locked_by = user
    THEN \* the UPDATE of a row that is gone matches nothing: StaleDataError
         IF RowById(table, existing.id) = {}
         THEN Outcome(table, FALSE, NoLock, <<"StaleDataError">>)
         ELSE LET stored == CHOOSE l \in RowById(table, existing.id) : TRUE
                  row == [stored EXCEPT !.expires_at = now + LOCK_DURATION_MINUTES]
              IN  Outcome((table \ {stored}) \cup {row}, TRUE, row, NoError)
    ELSE IF existing # NoLock /\ ~AcquireExpired(existing, now)
    THEN Outcome(table, FALSE, existing,
                 <<"Image is locked by", UsernameOf(existing.locked_by)>>)
    ELSE \* no lock, or an expired one: db.delete(existing_lock); db.flush()
         \* (the DELETE of a row that is gone matches nothing), then the INSERT
         InsertLock(table, table \ RowById(table, existing.id),
                    [id |-> id, image_id |-> image_id, locked_by |-> user,
                     expires_at |-> now + LOCK_DURATION_MINUTES])

\* Plausible bug: the force flag is honoured for every caller.
ReleaseLockForceAnyone(table, lock, user, force) ==
    IF lock = NoLock THEN Outcome(table, TRUE, NoLock, NoError)
    ELSE IF lock.locked_by = user \/ force
    THEN Outcome(table \ RowById(table, lock.id), TRUE, NoLock, NoError)
    ELSE Outcome(table, FALSE, NoLock,
                 <<"Cannot unlock - locked by", UsernameOf(lock.locked_by)>>)

\* release_lock after its query returned lock
ReleaseLock(table, lock, user, force) ==
    IF lock = NoLock THEN Outcome(table, TRUE, NoLock, NoError)
    ELSE IF lock.locked_by = user \/ (force /\ IsAdmin(user))
    THEN Outcome(table \ RowById(table, lock.id), TRUE, NoLock, NoError)
    ELSE Outcome(table, FALSE, NoLock,
                 <<"Cannot unlock - locked by", UsernameOf(lock.locked_by)>>)

\* Plausible bug: refreshing a lock that does not exist acquires it.
RefreshLockReacquire(table, lock, image_id, user, now, id) ==
    IF lock = NoLock
    THEN InsertLock(table, table,
                    [id |-> id, image_id |-> image_id, locked_by |-> user,
                     expires_at |-> now + LOCK_DURATION_MINUTES])
    ELSE IF lock.locked_by # user
    THEN Outcome(table, FALSE, NoLock, <<"You don't own this lock">>)
    ELSE LET row == [lock EXCEPT !.expires_at = now + LOCK_DURATION_MINUTES]
         IN  Outcome((table \ {lock}) \cup {row}, TRUE, row, NoError)

\* refresh_lock after its query returned lock (image_id and id are not used:
\* refresh_lock creates no row)
RefreshLock(table, lock, image_id, user, now, id) ==
    IF lock = NoLock THEN Outcome(table, FALSE, NoLock, <<"No lock exists">>)
    ELSE IF lock.locked_by # user
    THEN Outcome(table, FALSE, NoLock, <<"You don't own this lock">>)
    ELSE LET row == [lock EXCEPT !.expires_at = now + LOCK_DURATION_MINUTES]
         IN  Outcome((table \ {lock}) \cup {row}, TRUE, row, NoError)

\* Plausible bug: get_lock returns the stored lock without the expiry check.
GetLockNoExpiry(table, lock, now) ==
    Outcome(table, lock # NoLock, lock, NoError)

\* get_lock after its query returned lock; ok says that a lock is returned
GetLock(table, lock, now) ==
    IF lock = NoLock THEN Outcome(table, FALSE, NoLock, NoError)
    ELSE IF GetExpired(lock, now)
    THEN Outcome(table \ RowById(table, lock.id), FALSE, NoLock, NoError)
    ELSE Outcome(table, TRUE, lock, NoError)

\* cleanup_expired_locks: the rows its query selects
ExpiredLocks(table, now) == {l \in table : CleanupExpiredFilter(l, now)}

----------------------------------------------------------------------------
(* The lock service, one call at a time.  ret keeps the arguments of the   *)
(* last call, the lock its query read (existing) and what it returned.     *)

Ret(op, image_id, user, force, existing, o, count) ==
    [op |-> op, image_id |-> image_id, user |-> user, force |-> force,
     existing |-> existing, ok |-> o.ok, lock |-> o.lock, error |-> o.error,
     count |-> count]

NoCall == Ret("none", "", NoUser, FALSE, NoLock,
              Outcome({}, FALSE, NoLock, NoError), 0)

\* LockService.acquire_lock(db, image_id, user)
Acquire(image_id, user) ==
    /\ FreshId(locks, {}) # 0
    /\ \E existing \in QueryLock(locks, image_id) :
          LET o == AcquireWrite(locks, image_id \in Images, existing, image_id,
                                user, utcnow, FreshId(locks, {existing.id}))
          IN  /\ locks' = o.table
              /\ ret' = Ret("acquire", image_id, user, FALSE, existing, o, 0)
    /\ UNCHANGED <<utcnow, concVars, presenceVars, pconcVars, regVars, sessVars, flowVars>>

\* LockService.release_lock(db, image_id, user, force), as the release route
\* calls it: force is the caller's query parameter
Release(image_id, user, force) ==
    /\ \E lock \in QueryLock(locks, image_id) :
          LET o == ReleaseLock(locks, lock, user, force)
          IN  /\ locks' = o.table
              /\ ret' = Ret("release", image_id, user, force, lock, o, 0)
    /\ UNCHANGED <<utcnow, concVars, presenceVars, pconcVars, regVars, sessVars, flowVars>>

\* LockService.refresh_lock(db, image_id, user)
Refresh(image_id, user) ==
    /\ \E lock \in QueryLock(locks, image_id) :
          LET o == RefreshLock(locks, lock, image_id, user, utcnow,
                               FreshId(locks, {lock.id}))
          IN  /\ locks' = o.table
              /\ ret' = Ret("refresh", image_id, user, FALSE, lock, o, 0)
    /\ UNCHANGED <<utcnow, concVars, presenceVars, pconcVars, regVars, sessVars, flowVars>>

\* LockService.get_lock(db, image_id)
Get(image_id) ==
    /\ \E lock \in QueryLock(locks, image_id) :
          LET o == GetLock(locks, lock, utcnow)
          IN  /\ locks' = o.table
              /\ ret' = Ret("get", image_id, NoUser, FALSE, lock, o, 0)
    /\ UNCHANGED <<utcnow, concVars, presenceVars, pconcVars, regVars, sessVars, flowVars>>

\* LockService.cleanup_expired_locks(db)
CleanupExpiredLocks ==
    LET expired_locks == ExpiredLocks(locks, utcnow)
    IN  /\ locks' = locks \ expired_locks
        /\ ret' = Ret("cleanup", "", NoUser, FALSE, NoLock,
                      Outcome({}, TRUE, NoLock, NoError),
                      Cardinality(expired_locks))
        /\ UNCHANGED <<utcnow, concVars, presenceVars, pconcVars, regVars, sessVars, flowVars>>

\* Time passes.
Tick ==
    /\ utcnow + TickMinutes <= MaxTicks * TickMinutes
    /\ utcnow' = utcnow + TickMinutes
    /\ UNCHANGED <<locks, ret, concVars, presenceVars, pconcVars, regVars, sessVars, flowVars>>

InitLock ==
    /\ locks = {}
    /\ utcnow = 0
    /\ ret = NoCall

NextLock ==
    \/ \E i \in ImageIds, u \in UserIds : Acquire(i, u)
    \/ \E i \in ImageIds, u \in UserIds, force \in BOOLEAN : Release(i, u, force)
    \/ \E i \in ImageIds, u \in UserIds : Refresh(i, u)
    \/ \E i \in ImageIds : Get(i)
    \/ CleanupExpiredLocks
    \/ Tick

----------------------------------------------------------------------------
(* acquire_lock run by worker processes.  Within one process the route     *)
(* runs the whole call without yielding; two processes share only the      *)
(* database, so the queries of one call (lines 36-45) and its transaction  *)
(* (lines 47-76) interleave with those of another process.                 *)

Procs == {"w1", "w2"}

\* The image the worker processes compete for.
RacedImages == {"img1"}

Idle == [pc |-> "idle", image_id |-> "", user |-> NoUser, image_found |-> FALSE,
         existing |-> NoLock, now |-> 0, ok |-> FALSE, lock |-> NoLock,
         error |-> NoError, peers |-> {}]

\* The processes between their queries and their commit.
Querying == {q \in Procs : acq[q].pc = "queried"}

\* p starts acquire_lock(image_id, user): the image query, the lock query and
\* now = datetime.utcnow().  peers records the calls this one overlaps.
AcquireQuery(p, image_id, user) ==
    /\ acq[p].pc \in {"idle", "done"}
    /\ \E existing \in QueryLock(locks, image_id) :
          acq' = [q \in Procs |->
                    IF q = p
                    THEN [Idle EXCEPT !.pc = "queried", !.image_id = image_id,
                                      !.user = user,
                                      !.image_found = (image_id \in Images),
                                      !.existing = existing, !.now = utcnow,
                                      !.peers = Querying \ {p}]
                    ELSE IF q \in Querying
                    THEN [acq[q] EXCEPT !.peers = @ \cup {p}]
                    ELSE [acq[q] EXCEPT !.peers = @ \ {p}]]
    /\ UNCHANGED <<lockVars, presenceVars, pconcVars, regVars, sessVars, flowVars>>

\* p finishes acquire_lock: the branch on existing_lock and the transaction.
AcquireCommit(p) ==
    /\ acq[p].pc = "queried"
    /\ LET a == acq[p]
           id == FreshId(locks, {acq[q].existing.id : q \in Querying})
           o == AcquireWrite(locks, a.image_found, a.existing, a.image_id,
                             a.user, a.now, id)
       IN  /\ id # 0
           /\ locks' = o.table
           /\ acq' = [acq EXCEPT ![p] = [a EXCEPT !.pc = "done", !.ok = o.ok,
                                                 !.lock = o.lock,
                                                 !.error = o.error]]
    /\ UNCHANGED <<utcnow, ret, presenceVars, pconcVars, regVars, sessVars, flowVars>>

InitConc == acq = [p \in Procs |-> Idle]

NextLockConc ==
    \/ \E p \in Procs, i \in RacedImages, u \in UserIds : AcquireQuery(p, i, u)
    \/ \E p \in Procs : AcquireCommit(p)
    \/ Tick

----------------------------------------------------------------------------
(* Redis, as RedisPresenceStore uses it.  One hash per image, field user   *)
(* id, value json({username, last_seen}).  A key exists while its hash has *)
(* a field; a key may carry an expiry instant (EXPIRE), which HSET on the  *)
(* existing key leaves alone and which goes with the key when it is        *)
(* deleted.                                                                *)

\* The images and users of the presence model.
PresenceImages == {"img1"}
PresenceUsers == {"u1", "u2"}

NoValue == <<>>
NoTTL == -1

\* json.dumps(user_data) and json.loads(user_data_str)
Dumps(user_data) == <<"json", user_data.username, user_data.last_seen>>
Loads(str) == [username |-> str[2], last_seen |-> str[3]]

KeyExists(hs, key) == \E f \in PresenceUsers : hs[key][f] # NoValue

HEXISTS(hs, key, field) == hs[key][field] # NoValue
HGET(hs, key, field) == hs[key][field]
\* HGETALL: the fields of the hash
HGETALL(hs, key) == {f \in PresenceUsers : hs[key][f] # NoValue}
HSET(hs, key, field, value) == [hs EXCEPT ![key][field] = value]
HDEL(hs, key, fields) ==
    [hs EXCEPT ![key] = [f \in PresenceUsers |->
                            IF f \in fields THEN NoValue ELSE @[f]]]
\* EXPIRE key seconds, issued at instant now
EXPIRE(tt, hs, key, seconds, now) ==
    IF KeyExists(hs, key) THEN [tt EXCEPT ![key] = now + seconds] ELSE tt
\* The expiry instants once the hashes are hs: a key that is gone has none.
TTLAfter(tt, hs) == [k \in DOMAIN tt |-> IF KeyExists(hs, k) THEN tt[k] ELSE NoTTL]

----------------------------------------------------------------------------
(* RedisPresenceStore                                                      *)

timeout_seconds == 30

\* The presence clock advances in steps of TickSeconds, MaxPresenceTicks times.
TickSeconds == 15
MaxPresenceTicks == 5

Entry(user_id, str) == [user_id |-> user_id, username |-> Loads(str).username]

\* current_time - last_seen > self.timeout_seconds, in get_active_users
ActiveTimedOut(str, current_time) ==
    current_time - Loads(str).last_seen > timeout_seconds

\* current_time - last_seen > self.timeout_seconds, in cleanup_expired_users
CleanupTimedOut(str, current_time) ==
    current_time - Loads(str).last_seen > timeout_seconds

PResult(hs, tt, result, users) ==
    [hashes |-> hs, ttl |-> tt, result |-> result, users |-> users]

\* join_image: HEXISTS, HSET, EXPIRE; returns not was_present
JoinImage(hs, tt, image_id, user_id, username, now) ==
    LET was_present == HEXISTS(hs, image_id, user_id)
        user_data == [username |-> username, last_seen |-> now]
        hs1 == HSET(hs, image_id, user_id, Dumps(user_data))
        tt1 == EXPIRE(tt, hs1, image_id, timeout_seconds * 2, now)
    IN  PResult(hs1, tt1, ~was_present, {})

\* leave_image: HGET, HDEL; returns (was_present, username) with the username
\* in users
LeaveImage(hs, tt, image_id, user_id) ==
    LET user_data_str == HGET(hs, image_id, user_id)
    IN  IF user_data_str = NoValue THEN PResult(hs, tt, FALSE, {})
        ELSE LET hs1 == HDEL(hs, image_id, {user_id})
             IN  PResult(hs1, TTLAfter(tt, hs1), TRUE,
                         {Entry(user_id, user_data_str)})

\* heartbeat: HGET, HSET; returns whether the user was found
Heartbeat(hs, tt, image_id, user_id, now) ==
    LET user_data_str == HGET(hs, image_id, user_id)
    IN  IF user_data_str = NoValue THEN PResult(hs, tt, FALSE, {})
        ELSE LET user_data == [Loads(user_data_str) EXCEPT !.last_seen = now]
             IN  PResult(HSET(hs, image_id, user_id, Dumps(user_data)), tt,
                         TRUE, {})

\* get_active_users: HGETALL, then HDEL of the timed-out users; returns the
\* others
GetActiveUsers(hs, tt, image_id, current_time) ==
    LET all_users == HGETALL(hs, image_id)
        expired_users == {u \in all_users :
                            ActiveTimedOut(HGET(hs, image_id, u), current_time)}
        active_users == {Entry(u, HGET(hs, image_id, u)) :
                            u \in all_users \ expired_users}
        hs1 == HDEL(hs, image_id, expired_users)
    IN  PResult(hs1, TTLAfter(tt, hs1), TRUE, active_users)

\* cleanup_expired_users: HGETALL, then HDEL of each timed-out user; returns
\* the removed users
CleanupExpiredUsers(hs, tt, image_id, current_time) ==
    LET all_users == HGETALL(hs, image_id)
        removed == {u \in all_users :
                      CleanupTimedOut(HGET(hs, image_id, u), current_time)}
        removed_users == {Entry(u, HGET(hs, image_id, u)) : u \in removed}
        hs1 == HDEL(hs, image_id, removed)
    IN  PResult(hs1, TTLAfter(tt, hs1), TRUE, removed_users)

----------------------------------------------------------------------------
(* The presence store, one call at a time.  pret keeps the last call and   *)
(* its result.  hist keeps, for each (image, user), what the properties    *)
(* speak of and the store forgets (pret.before is the caller's hist when   *)
(* the call was made, pret.at the instant of the call):                    *)
(*   seen      instant of the last Join or successful Heartbeat, or -1     *)
(*             before the first Join and after a Leave                     *)
(*   evicted   a timeout removed the entry since: ActiveUsers or           *)
(*             CleanupExpired deleted it, or its key expired when the      *)
(*             entry was older than the timeout                            *)
(*   reported  number of CleanupExpired calls that reported the user since *)
(*   swept     a CleanupExpired call was made after seen + timeout         *)

NoHist == [seen |-> -1, evicted |-> FALSE, reported |-> 0, swept |-> FALSE]

Touched(now) == [seen |-> now, evicted |-> FALSE, reported |-> 0, swept |-> FALSE]

PRet(op, image_id, user_id, r, h) ==
    [op |-> op, image_id |-> image_id, user_id |-> user_id, at |-> clock,
     result |-> r.result, users |-> r.users, before |-> h]

NoPCall == PRet("none", "", NoUser, PResult(<<>>, <<>>, FALSE, {}), NoHist)

\* The users of image_id whose entries a call deleted.
Deleted(hs, hs1, image_id) == HGETALL(hs, image_id) \ HGETALL(hs1, image_id)

PJoin(i, u) ==
    LET r == JoinImage(hashes, ttl, i, u, Username[u], clock)
    IN  /\ hashes' = r.hashes /\ ttl' = r.ttl
        /\ hist' = [hist EXCEPT ![i][u] = Touched(clock)]
        /\ pret' = PRet("join", i, u, r, hist[i][u])
        /\ UNCHANGED <<clock, lockVars, concVars, pconcVars, regVars, sessVars, flowVars>>

PLeave(i, u) ==
    LET r == LeaveImage(hashes, ttl, i, u)
    IN  /\ hashes' = r.hashes /\ ttl' = r.ttl
        /\ hist' = [hist EXCEPT ![i][u] = NoHist]
        /\ pret' = PRet("leave", i, u, r, hist[i][u])
        /\ UNCHANGED <<clock, lockVars, concVars, pconcVars, regVars, sessVars, flowVars>>

PHeartbeat(i, u) ==
    LET r == Heartbeat(hashes, ttl, i, u, clock)
    IN  /\ hashes' = r.hashes /\ ttl' = r.ttl
        /\ hist' = [hist EXCEPT ![i][u] = IF r.result THEN Touched(clock) ELSE @]
        /\ pret' = PRet("heartbeat", i, u, r, hist[i][u])
        /\ UNCHANGED <<clock, lockVars, concVars, pconcVars, regVars, sessVars, flowVars>>

PActiveUsers(i) ==
    LET r == GetActiveUsers(hashes, ttl, i, clock)
    IN  /\ hashes' = r.hashes /\ ttl' = r.ttl
        /\ hist' = [hist EXCEPT ![i] = [u \in PresenceUsers |->
                      IF u \in Deleted(hashes, r.hashes, i)
                      THEN [@[u] EXCEPT !.evicted = TRUE] ELSE @[u]]]
        /\ pret' = PRet("active_users", i, NoUser, r, NoHist)
        /\ UNCHANGED <<clock, lockVars, concVars, pconcVars, regVars, sessVars, flowVars>>

PCleanupExpired(i) ==
    LET r == CleanupExpiredUsers(hashes, ttl, i, clock)
    IN  /\ hashes' = r.hashes /\ ttl' = r.ttl
        /\ hist' = [hist EXCEPT ![i] = [u \in PresenceUsers |->
                      [@[u] EXCEPT
                         !.evicted = @ \/ u \in Deleted(hashes, r.hashes, i),
                         !.reported = IF \E e \in r.users : e.user_id = u
                                      THEN @ + 1 ELSE @,
                         !.swept = @ \/ (hist[i][u].seen # -1 /\
                                         clock - hist[i][u].seen > timeout_seconds)]]]
        /\ pret' = PRet("cleanup", i, NoUser, r, NoHist)
        /\ UNCHANGED <<clock, lockVars, concVars, pconcVars, regVars, sessVars, flowVars>>

\* Time passes; Redis drops the keys whose expiry instant is reached.
PTick ==
    LET now == clock + TickSeconds
        gone == {k \in PresenceImages : ttl[k] # NoTTL /\ now >= ttl[k]}
    IN  /\ now <= MaxPresenceTicks * TickSeconds
        /\ clock' = now
        /\ hashes' = [k \in PresenceImages |->
                        IF k \in gone THEN [f \in PresenceUsers |-> NoValue]
                        ELSE hashes[k]]
        /\ ttl' = [k \in PresenceImages |-> IF k \in gone THEN NoTTL ELSE ttl[k]]
        /\ hist' = [k \in PresenceImages |-> [u \in PresenceUsers |->
                      IF /\ k \in gone /\ hashes[k][u] # NoValue
                         /\ now - Loads(hashes[k][u]).last_seen > timeout_seconds
                      THEN [hist[k][u] EXCEPT !.evicted = TRUE]
                      ELSE hist[k][u]]]
        /\ UNCHANGED <<pret, lockVars, concVars, pconcVars, regVars, sessVars, flowVars>>

InitPresence ==
    /\ hashes = [k \in PresenceImages |-> [f \in PresenceUsers |-> NoValue]]
    /\ ttl = [k \in PresenceImages |-> NoTTL]
    /\ clock = 0
    /\ hist = [k \in PresenceImages |-> [u \in PresenceUsers |-> NoHist]]
    /\ pret = NoPCall

NextPresence ==
    \/ \E i \in PresenceImages, u \in PresenceUsers : PJoin(i, u)
    \/ \E i \in PresenceImages, u \in PresenceUsers : PLeave(i, u)
    \/ \E i \in PresenceImages, u \in PresenceUsers : PHeartbeat(i, u)
    \/ \E i \in PresenceImages : PActiveUsers(i)
    \/ \E i \in PresenceImages : PCleanupExpired(i)
    \/ PTick

----------------------------------------------------------------------------
(* The presence store called by several worker processes.  Redis runs one  *)
(* command at a time; a store method is a sequence of commands, and the    *)
(* commands of calls made by different processes interleave.  pcalls[p] is *)
(* the call process p is running: pc names its next command, the other     *)
(* fields are the method's local variables.                                *)

\* time.time() advances MaxConcTicks times in this specification.
MaxConcTicks == 3

PIdle == [pc |-> "idle", op |-> "none", image_id |-> "", user_id |-> NoUser,
          was_present |-> FALSE, user_data_str |-> NoValue, expired |-> {},
          result |-> FALSE, users |-> {}, peers |-> {}]

\* The processes in the middle of a call.
Running == {q \in Procs : pcalls[q].pc \notin {"idle", "done"}}

\* p starts a call whose state after its first command is c; peers records
\* the calls this one overlaps.
PStart(p, c) ==
    /\ pcalls[p].pc \in {"idle", "done"}
    /\ pcalls' = [q \in Procs |->
                    IF q = p THEN [c EXCEPT !.peers = Running \ {p}]
                    ELSE IF q \in Running
                    THEN [pcalls[q] EXCEPT !.peers = @ \cup {p}]
                    ELSE [pcalls[q] EXCEPT !.peers = @ \ {p}]]

\* p's call moves on to state c.
PStep(p, c) == pcalls' = [pcalls EXCEPT ![p] = c]

\* join_image, first command: was_present = hexists(key, user_id)
JoinHexists(p, i, u) ==
    /\ PStart(p, [PIdle EXCEPT !.pc = "join_hset", !.op = "join",
                               !.image_id = i, !.user_id = u,
                               !.was_present = HEXISTS(hashes, i, u)])
    /\ UNCHANGED <<presenceVars, lockVars, concVars, regVars, sessVars, flowVars>>

\* join_image, second command: hset(key, user_id, json.dumps(user_data)) with
\* last_seen = time.time()
JoinHset(p) ==
    LET c == pcalls[p]
        user_data == [username |-> Username[c.user_id], last_seen |-> clock]
    IN  /\ c.pc = "join_hset"
        /\ hashes' = HSET(hashes, c.image_id, c.user_id, Dumps(user_data))
        /\ PStep(p, [c EXCEPT !.pc = "join_expire"])
        /\ UNCHANGED <<ttl, clock, hist, pret, lockVars, concVars, regVars, sessVars, flowVars>>

\* join_image, third command: expire(key, timeout_seconds * 2); the call
\* returns not was_present
JoinExpire(p) ==
    LET c == pcalls[p]
    IN  /\ c.pc = "join_expire"
        /\ ttl' = EXPIRE(ttl, hashes, c.image_id, timeout_seconds * 2, clock)
        /\ PStep(p, [c EXCEPT !.pc = "done", !.result = ~c.was_present])
        /\ UNCHANGED <<hashes, clock, hist, pret, lockVars, concVars, regVars, sessVars, flowVars>>

\* leave_image, first command: hget(key, user_id); (False, None) if absent
LeaveHget(p, i, u) ==
    LET user_data_str == HGET(hashes, i, u)
    IN  /\ PStart(p, [PIdle EXCEPT
                        !.pc = IF user_data_str = NoValue THEN "done"
                               ELSE "leave_hdel",
                        !.op = "leave", !.image_id = i, !.user_id = u,
                        !.user_data_str = user_data_str])
        /\ UNCHANGED <<presenceVars, lockVars, concVars, regVars, sessVars, flowVars>>

\* leave_image, second command: hdel(key, user_id); returns (True, username)
LeaveHdel(p) ==
    LET c == pcalls[p]
        hs1 == HDEL(hashes, c.image_id, {c.user_id})
    IN  /\ c.pc = "leave_hdel"
        /\ hashes' = hs1
        /\ ttl' = TTLAfter(ttl, hs1)
        /\ PStep(p, [c EXCEPT !.pc = "done", !.result = TRUE,
                              !.users = {Entry(c.user_id, c.user_data_str)}])
        /\ UNCHANGED <<clock, hist, pret, lockVars, concVars, regVars, sessVars, flowVars>>

\* heartbeat, first command: hget(key, user_id); False if absent
HeartbeatHget(p, i, u) ==
    LET user_data_str == HGET(hashes, i, u)
    IN  /\ PStart(p, [PIdle EXCEPT
                        !.pc = IF user_data_str = NoValue THEN "done"
                               ELSE "heartbeat_hset",
                        !.op = "heartbeat", !.image_id = i, !.user_id = u,
                        !.user_data_str = user_data_str])
        /\ UNCHANGED <<presenceVars, lockVars, concVars, regVars, sessVars, flowVars>>

\* heartbeat, second command: hset of the data read, with last_seen =
\* time.time(); returns True
HeartbeatHset(p) ==
    LET c == pcalls[p]
        user_data == [Loads(c.user_data_str) EXCEPT !.last_seen = clock]
    IN  /\ c.pc = "heartbeat_hset"
        /\ hashes' = HSET(hashes, c.image_id, c.user_id, Dumps(user_data))
        /\ PStep(p, [c EXCEPT !.pc = "done", !.result = TRUE])
        /\ UNCHANGED <<ttl, clock, hist, pret, lockVars, concVars, regVars, sessVars, flowVars>>

\* get_active_users, first command: hgetall(key), split by
\* current_time - last_seen > timeout_seconds
ActiveHgetall(p, i) ==
    LET all_users == HGETALL(hashes, i)
        expired_users == {u \in all_users :
                            ActiveTimedOut(HGET(hashes, i, u), clock)}
        active_users == {Entry(u, HGET(hashes, i, u)) :
                            u \in all_users \ expired_users}
    IN  /\ PStart(p, [PIdle EXCEPT
                        !.pc = IF expired_users = {} THEN "done"
                               ELSE "active_hdel",
                        !.op = "active_users", !.image_id = i,
                        !.expired = expired_users, !.result = TRUE,
                        !.users = active_users])
        /\ UNCHANGED <<presenceVars, lockVars, concVars, regVars, sessVars, flowVars>>

\* get_active_users, second command: hdel(key, *expired_users)
ActiveHdel(p) ==
    LET c == pcalls[p]
        hs1 == HDEL(hashes, c.image_id, c.expired)
    IN  /\ c.pc = "active_hdel"
        /\ hashes' = hs1
        /\ ttl' = TTLAfter(ttl, hs1)
        /\ PStep(p, [c EXCEPT !.pc = "done"])
        /\ UNCHANGED <<clock, hist, pret, lockVars, concVars, regVars, sessVars, flowVars>>

\* cleanup_expired_users, first command: hgetall(key); the users with
\* current_time - last_seen > timeout_seconds are the ones it will remove
CleanupHgetall(p, i) ==
    LET all_users == HGETALL(hashes, i)
        removed == {u \in all_users :
                      CleanupTimedOut(HGET(hashes, i, u), clock)}
        removed_users == {Entry(u, HGET(hashes, i, u)) : u \in removed}
    IN  /\ PStart(p, [PIdle EXCEPT
                        !.pc = IF removed = {} THEN "done" ELSE "cleanup_hdel",
                        !.op = "cleanup", !.image_id = i,
                        !.expired = removed, !.result = TRUE,
                        !.users = removed_users])
        /\ UNCHANGED <<presenceVars, lockVars, concVars, regVars, sessVars, flowVars>>

\* cleanup_expired_users, following commands: hdel(key, user_id), one user
\* per command
CleanupHdel(p) ==
    LET c == pcalls[p]
    IN  /\ c.pc = "cleanup_hdel"
        /\ \E u \in c.expired :
              LET hs1 == HDEL(hashes, c.image_id, {u})
                  rest == c.expired \ {u}
              IN  /\ hashes' = hs1
                  /\ ttl' = TTLAfter(ttl, hs1)
                  /\ PStep(p, [c EXCEPT !.expired = rest,
                                        !.pc = IF rest = {} THEN "done"
                                               ELSE "cleanup_hdel"])
        /\ UNCHANGED <<clock, hist, pret, lockVars, concVars, regVars, sessVars, flowVars>>

\* Time passes between two commands; Redis drops the keys whose expiry
\* instant is reached.
ConcTick ==
    LET now == clock + TickSeconds
        gone == {k \in PresenceImages : ttl[k] # NoTTL /\ now >= ttl[k]}
    IN  /\ now <= MaxConcTicks * TickSeconds
        /\ clock' = now
        /\ hashes' = [k \in PresenceImages |->
                        IF k \in gone THEN [f \in PresenceUsers |-> NoValue]
                        ELSE hashes[k]]
        /\ ttl' = [k \in PresenceImages |-> IF k \in gone THEN NoTTL ELSE ttl[k]]
        /\ UNCHANGED <<hist, pret, pconcVars, lockVars, concVars, regVars, sessVars, flowVars>>

InitPresenceConc == pcalls = [p \in Procs |-> PIdle]

NextPresenceConc ==
    \/ \E p \in Procs, i \in PresenceImages, u \in PresenceUsers : JoinHexists(p, i, u)
    \/ \E p \in Procs : JoinHset(p)
    \/ \E p \in Procs : JoinExpire(p)
    \/ \E p \in Procs, i \in PresenceImages, u \in PresenceUsers : LeaveHget(p, i, u)
    \/ \E p \in Procs : LeaveHdel(p)
    \/ \E p \in Procs, i \in PresenceImages, u \in PresenceUsers : HeartbeatHget(p, i, u)
    \/ \E p \in Procs : HeartbeatHset(p)
    \/ \E p \in Procs, i \in PresenceImages : ActiveHgetall(p, i)
    \/ \E p \in Procs : ActiveHdel(p)
    \/ \E p \in Procs, i \in PresenceImages : CleanupHgetall(p, i)
    \/ \E p \in Procs : CleanupHdel(p)
    \/ ConcTick

----------------------------------------------------------------------------
(* ConnectionManager: the connection registry of one server process.  The  *)
(* two dicts are functions whose domain is the set of keys present.  A     *)
(* websocket object is used by one handler and never registered again.     *)
(* The coroutines of a process run one at a time and yield at an await:    *)
(* broadcast_to_image awaits each send, so connects, disconnects and       *)
(* personal sends of other coroutines happen between its sends.            *)

Websockets == {"ws1", "ws2", "ws3"}
RegImages == {"img1", "img2"}
\* The user whose handler owns each websocket.
SocketUser == [w \in Websockets |->
                 CASE w = "ws1" -> "u1" [] w = "ws2" -> "u2" [] w = "ws3" -> "u1"]
NoSocket == "none"

Registry(ac, ci) == [active_connections |-> ac, connection_info |-> ci]

Info(image_id, user_id, username) ==
    [image_id |-> image_id, user_id |-> user_id, username |-> username]

\* dict with key k set to v
DictSet(d, k, v) == [x \in DOMAIN d \cup {k} |-> IF x = k THEN v ELSE d[x]]
\* dict without key k
DictDel(d, k) == [x \in DOMAIN d \ {k} |-> d[x]]

\* connect, after websocket.accept()
ConnectOp(reg, websocket, image_id, user_id, username) ==
    LET ac == reg.active_connections
        ac1 == IF image_id \notin DOMAIN ac THEN DictSet(ac, image_id, {}) ELSE ac
        ac2 == DictSet(ac1, image_id, ac1[image_id] \cup {websocket})
    IN  Registry(ac2, DictSet(reg.connection_info, websocket,
                              Info(image_id, user_id, username)))

\* A disconnect that leaves the emptied set of the image in place.
DisconnectKeepEmpty(reg, websocket) ==
    IF websocket \notin DOMAIN reg.connection_info THEN reg
    ELSE LET ac == reg.active_connections
             image_id == reg.connection_info[websocket].image_id
             ac1 == IF image_id \in DOMAIN ac
                    THEN DictSet(ac, image_id, ac[image_id] \ {websocket})
                    ELSE ac
         IN  Registry(ac1, DictDel(reg.connection_info, websocket))

\* disconnect
DisconnectOp(reg, websocket) ==
    IF websocket \notin DOMAIN reg.connection_info THEN reg
    ELSE LET ac == reg.active_connections
             image_id == reg.connection_info[websocket].image_id
             ac1 == IF image_id \in DOMAIN ac
                    THEN LET rest == ac[image_id] \ {websocket}
                         IN  IF rest = {} THEN DictDel(ac, image_id)
                             ELSE DictSet(ac, image_id, rest)
                    ELSE ac
         IN  Registry(ac1, DictDel(reg.connection_info, websocket))

\* get_connection_count
GetConnectionCount(reg, image_id) ==
    IF image_id \notin DOMAIN reg.active_connections THEN 0
    ELSE Cardinality(reg.active_connections[image_id])

\* for connection in dead_connections: self.disconnect(connection)
RECURSIVE DisconnectAllDead(_, _)
DisconnectAllDead(reg, dead_connections) ==
    IF dead_connections = {} THEN reg
    ELSE LET c == CHOOSE x \in dead_connections : TRUE
         IN  DisconnectAllDead(DisconnectOp(reg, c), dead_connections \ {c})

\* A broadcast that forgets its dead connections.
CleanupKeepDead(reg, dead_connections) == reg

\* The cleanup at the end of broadcast_to_image.
CleanupDead(reg, dead_connections) == DisconnectAllDead(reg, dead_connections)

\* A broadcast that sends to every connection of the image.
SendTargetsAll(connections, exclude) == connections

\* The connections broadcast_to_image sends to: all but exclude.
SendTargets(connections, exclude) == connections \ {exclude}

\* The registry now.
Reg == Registry(active_connections, connection_info)

\* The websockets registered on image_id, read from connection_info.
RegisteredOn(ci, image_id) == {w \in DOMAIN ci : ci[w].image_id = image_id}

\* bcast: the local variables of broadcast_to_image, and for the properties
\* what the call found at its start (at_start), how often it sent to each
\* websocket (sends), which sends succeeded (delivered) and which websockets
\* were disconnected by other coroutines during the call (left).
NoBroadcast ==
    [pc |-> "idle", image_id |-> "", exclude |-> NoSocket, pending |-> {},
     dead_connections |-> {}, delivered |-> {}, left |-> {}, at_start |-> {},
     sends |-> [w \in Websockets |-> 0]]

\* A handler accepts a new websocket and registers it.
Connect(w, i) ==
    /\ w \notin opened
    /\ opened' = opened \cup {w}
    /\ LET r == ConnectOp(Reg, w, i, SocketUser[w], Username[SocketUser[w]])
       IN  /\ active_connections' = r.active_connections
           /\ connection_info' = r.connection_info
    /\ UNCHANGED <<bcast, sret, lockVars, concVars, presenceVars, pconcVars, sessVars, flowVars>>

\* A handler ends and calls disconnect on its websocket.
Disconnect(w) ==
    /\ w \in opened
    /\ LET r == DisconnectOp(Reg, w)
       IN  /\ active_connections' = r.active_connections
           /\ connection_info' = r.connection_info
    /\ bcast' = IF bcast.pc = "sending" THEN [bcast EXCEPT !.left = @ \cup {w}]
                ELSE bcast
    /\ UNCHANGED <<opened, sret, lockVars, concVars, presenceVars, pconcVars, sessVars, flowVars>>

\* broadcast_to_image starts: returns at once if the image has no entry,
\* else copies the image's connections.
BroadcastStart(i, exclude) ==
    /\ bcast.pc \in {"idle", "done"}
    /\ bcast' = [NoBroadcast EXCEPT
                   !.pc = IF i \in DOMAIN active_connections THEN "sending"
                          ELSE "done",
                   !.image_id = i, !.exclude = exclude,
                   !.pending = IF i \in DOMAIN active_connections
                               THEN active_connections[i] ELSE {},
                   !.at_start = RegisteredOn(connection_info, i)]
    /\ UNCHANGED <<active_connections, connection_info, opened, sret,
                   lockVars, concVars, presenceVars, pconcVars, sessVars, flowVars>>

\* One turn of the loop: await connection.send_json(message).  The send to
\* a websocket that is no longer registered raises; any other may raise.
BroadcastSend(w, ok) ==
    /\ bcast.pc = "sending"
    /\ w \in SendTargets(bcast.pending, bcast.exclude)
    /\ ok => w \in DOMAIN connection_info
    /\ bcast' = [bcast EXCEPT
                   !.pending = @ \ {w},
                   !.sends[w] = @ + 1,
                   !.delivered = IF ok THEN @ \cup {w} ELSE @,
                   !.dead_connections = IF ok THEN @ ELSE @ \cup {w}]
    /\ UNCHANGED <<active_connections, connection_info, opened, sret,
                   lockVars, concVars, presenceVars, pconcVars, sessVars, flowVars>>

\* The loop is over: the dead connections are disconnected and the call
\* returns.
BroadcastReturn ==
    /\ bcast.pc = "sending"
    /\ SendTargets(bcast.pending, bcast.exclude) = {}
    /\ LET r == CleanupDead(Reg, bcast.dead_connections)
       IN  /\ active_connections' = r.active_connections
           /\ connection_info' = r.connection_info
    /\ bcast' = [bcast EXCEPT !.pc = "done", !.pending = {}]
    /\ UNCHANGED <<opened, sret, lockVars, concVars, presenceVars, pconcVars, sessVars, flowVars>>

\* send_personal_message: the send, and disconnect if it raises.
NoSend == [websocket |-> NoSocket, ok |-> FALSE, turn |-> FALSE]

SendPersonalMessage(w, ok) ==
    /\ w \in opened
    /\ ok => w \in DOMAIN connection_info
    /\ LET r == IF ok THEN Reg ELSE DisconnectOp(Reg, w)
       IN  /\ active_connections' = r.active_connections
           /\ connection_info' = r.connection_info
    /\ sret' = [websocket |-> w, ok |-> ok, turn |-> ~sret.turn]
    /\ bcast' = IF bcast.pc = "sending" /\ ~ok
                THEN [bcast EXCEPT !.left = @ \cup {w}] ELSE bcast
    /\ UNCHANGED <<opened, lockVars, concVars, presenceVars, pconcVars, sessVars, flowVars>>

InitRegistry ==
    /\ active_connections = <<>>
    /\ connection_info = <<>>
    /\ opened = {}
    /\ bcast = NoBroadcast
    /\ sret = NoSend

NextRegistry ==
    \/ \E w \in Websockets, i \in RegImages : Connect(w, i)
    \/ \E w \in Websockets : Disconnect(w)
    \/ \E i \in RegImages, x \in Websockets \cup {NoSocket} : BroadcastStart(i, x)
    \/ \E w \in Websockets, ok \in BOOLEAN : BroadcastSend(w, ok)
    \/ BroadcastReturn
    \/ \E w \in Websockets, ok \in BOOLEAN : SendPersonalMessage(w, ok)

----------------------------------------------------------------------------
(* websocket_collaboration: one handler coroutine per websocket, in one    *)
(* process.  The handlers share the connection manager and the presence    *)
(* store.  A handler runs without interruption between two awaits; the     *)
(* Redis client is synchronous, so a presence call is part of the step     *)
(* that makes it.  A broadcast made by a handler or by a sweep task is     *)
(* taken here as one step (SpecRegistry has its interleavings); the sends  *)
(* that raise are chosen freely.                                           *)

\* time.time() advances in steps of SessTickSeconds, MaxSessTicks times, in
\* this specification.
SessTickSeconds == 30
MaxSessTicks == 2

\* The image the handlers are opened on.
SessImage == "img1"

\* Tokens: one that does not verify, and verified payloads whose "sub" is
\* absent, names no row of users, or names the user of the websocket.
TokenKinds == {"invalid", "nosub", "unknown", "valid"}
NoSub == ""

\* decode_access_token: the payload of a token that verifies; raises JWTError
\* otherwise.
DecodeAccessToken(token, w) ==
    CASE token = "invalid" -> [JWTError |-> TRUE, sub |-> NoSub]
      [] token = "nosub" -> [JWTError |-> FALSE, sub |-> NoSub]
      [] token = "unknown" -> [JWTError |-> FALSE, sub |-> "ghost"]
      [] token = "valid" -> [JWTError |-> FALSE, sub |-> SocketUser[w]]

NoRow == [id |-> NoUser, username |-> "", is_active |-> FALSE]

\* The users table, when an administrator has set is_active = active on the
\* row of u2.
UsersTable(active) ==
    {[id |-> u, username |-> Username[u],
      is_active |-> IF u = "u2" THEN active ELSE TRUE] : u \in UserIds}

\* A query that forgets its filter.
QueryUserNoFilter(table, user_id) ==
    CHOOSE r \in table : r.id = "u1"

\* db.query(User).filter(User.id == user_id).first()
QueryUser(table, user_id) ==
    IF \E r \in table : r.id = user_id
    THEN CHOOSE r \in table : r.id = user_id
    ELSE NoRow

\* The authentication block: whether JWTError was raised, and the user found
\* (NoRow if none).
Authenticate(token, w, table) ==
    LET payload == DecodeAccessToken(token, w)
    IN  [JWTError |-> payload.JWTError,
         user |-> IF ~payload.JWTError /\ payload.sub # NoSub
                  THEN QueryUser(table, payload.sub) ELSE NoRow]

\* websocket.close(code=1008, ...)
PolicyViolation == 1008
NoCode == 0

NoSession ==
    [pc |-> "new", token |-> "", user |-> NoRow, is_new_join |-> FALSE,
     cleanup_task |-> "none", close_code |-> NoCode, announced |-> {},
     snapshots |-> 0, fresh |-> FALSE]

\* A handler that returns and leaves its task running.
ReturnedLeaking(s) ==
    [NoSession EXCEPT !.pc = "closed", !.cleanup_task = s.cleanup_task]

\* The handler has returned; its task, if it had one, is cancelled.
Returned(s) ==
    [NoSession EXCEPT !.pc = "closed",
                      !.cleanup_task = IF s.cleanup_task = "none" THEN "none"
                                       ELSE "cancelled"]

\* broadcast_to_image run to its end: sent is the set of connections it
\* sends to, failing those whose send raises.
BroadcastToImage(reg, image_id, exclude, failing) ==
    IF image_id \notin DOMAIN reg.active_connections
    THEN [reg |-> reg, sent |-> {}]
    ELSE LET targets == SendTargets(reg.active_connections[image_id], exclude)
         IN  [reg |-> CleanupDead(reg, targets \cap failing), sent |-> targets]

\* The connections a broadcast on image_id would send to.
Targets(image_id) ==
    IF image_id \in DOMAIN active_connections
    THEN active_connections[image_id] ELSE {}

\* The user of (image, user) is tracked, unless left, since this instant.
SeenAt(now) == [NoHist EXCEPT !.seen = now]

\* The history after a presence call by user u that gave store result r.
HistAfter(u, op, r) ==
    [hist EXCEPT ![SessImage][u] =
        CASE op = "join" -> SeenAt(clock)
          [] op = "heartbeat" -> IF r.result THEN SeenAt(clock) ELSE @
          [] op = "leave" -> NoHist]

\* The handler of w starts: authentication; on rejection close(1008) and
\* return; else manager.connect, join_image and, for a new join, the
\* active_users broadcast to the others.
SessOpenStep(w, token, active) ==
    /\ sess[w].pc = "new"
    /\ LET auth == Authenticate(token, w, UsersTable(active))
           user == auth.user
       IN  IF auth.JWTError \/ user = NoRow
           THEN /\ sess' = [sess EXCEPT ![w] =
                              [@ EXCEPT !.pc = "closed", !.token = token,
                                        !.close_code = PolicyViolation]]
                /\ UNCHANGED <<active_connections, connection_info, opened,
                               hashes, ttl, hist>>
           ELSE \E failing \in SUBSET Targets(SessImage) :
                LET reg1 == ConnectOp(Reg, w, SessImage, user.id, user.username)
                    j == JoinImage(hashes, ttl, SessImage, user.id,
                                   user.username, clock)
                    is_new_join == j.result
                    a == GetActiveUsers(j.hashes, j.ttl, SessImage, clock)
                    b == BroadcastToImage(reg1, SessImage, w, failing)
                IN  /\ opened' = opened \cup {w}
                    /\ hist' = HistAfter(user.id, "join", j)
                    /\ sess' = [sess EXCEPT ![w] =
                          [@ EXCEPT !.pc = "joined", !.token = token,
                                    !.user = user,
                                    !.is_new_join = is_new_join,
                                    !.fresh = /\ hist[SessImage][user.id].seen # -1
                                              /\ clock - hist[SessImage][user.id].seen
                                                    <= timeout_seconds,
                                    !.announced = IF is_new_join THEN b.sent
                                                  ELSE {}]]
                    /\ IF is_new_join
                       THEN /\ hashes' = a.hashes /\ ttl' = a.ttl
                            /\ active_connections' = b.reg.active_connections
                            /\ connection_info' = b.reg.connection_info
                       ELSE /\ failing = {}
                            /\ hashes' = j.hashes /\ ttl' = j.ttl
                            /\ active_connections' = reg1.active_connections
                            /\ connection_info' = reg1.connection_info
    /\ UNCHANGED <<clock, pret, bcast, sret, lockVars, concVars, pconcVars>>

\* get_active_users and the snapshot sent to the new connection; then the
\* sweep task is created.  If the send raises, the handler ends.
SessSnapshotStep(w, ok) ==
    /\ sess[w].pc = "joined"
    /\ LET a == GetActiveUsers(hashes, ttl, SessImage, clock)
           r == IF ok THEN Reg ELSE DisconnectOp(Reg, w)
       IN  /\ hashes' = a.hashes /\ ttl' = a.ttl
           /\ active_connections' = r.active_connections
           /\ connection_info' = r.connection_info
    /\ sess' = [sess EXCEPT ![w] =
                  IF ok THEN [@ EXCEPT !.snapshots = @ + 1, !.pc = "active",
                                       !.cleanup_task = "running"]
                  ELSE Returned(@)]
    /\ UNCHANGED <<clock, hist, pret, opened, bcast, sret, lockVars, concVars,
                   pconcVars>>

\* A "heartbeat" message.
SessHeartbeatStep(w) ==
    /\ sess[w].pc = "active"
    /\ LET r == Heartbeat(hashes, ttl, SessImage, sess[w].user.id, clock)
       IN  /\ hashes' = r.hashes /\ ttl' = r.ttl
           /\ hist' = HistAfter(sess[w].user.id, "heartbeat", r)
    /\ UNCHANGED <<clock, pret, regVars, sessVars, lockVars, concVars, pconcVars>>

\* A leave that broadcasts whatever leave_image returned.
LeaveBroadcastsAlways(was_present) == TRUE

\* if was_present:
LeaveBroadcasts(was_present) == was_present

\* A "leave" message: leave_image and, if the user was present, the
\* active_users broadcast to every connection of the image.
SessLeaveStep(w) ==
    /\ sess[w].pc = "active"
    /\ LET r == LeaveImage(hashes, ttl, SessImage, sess[w].user.id)
           a == GetActiveUsers(r.hashes, r.ttl, SessImage, clock)
       IN  /\ hist' = HistAfter(sess[w].user.id, "leave", r)
           /\ IF LeaveBroadcasts(r.result)
              THEN \E failing \in SUBSET Targets(SessImage) :
                     LET b == BroadcastToImage(Reg, SessImage, NoSocket, failing)
                     IN  /\ hashes' = a.hashes /\ ttl' = a.ttl
                         /\ active_connections' = b.reg.active_connections
                         /\ connection_info' = b.reg.connection_info
              ELSE /\ hashes' = r.hashes /\ ttl' = r.ttl
                   /\ UNCHANGED <<active_connections, connection_info>>
    /\ UNCHANGED <<clock, pret, opened, bcast, sret, sessVars, lockVars,
                   concVars, pconcVars>>

\* A "cursor_move" message: broadcast to the others.
SessCursorMoveStep(w) ==
    /\ sess[w].pc = "active"
    /\ \E failing \in SUBSET Targets(SessImage) :
          LET b == BroadcastToImage(Reg, SessImage, w, failing)
          IN  /\ active_connections' = b.reg.active_connections
              /\ connection_info' = b.reg.connection_info
    /\ UNCHANGED <<presenceVars, opened, bcast, sret, sessVars, lockVars,
                   concVars, pconcVars>>

\* A "ping" message: heartbeat, then the pong as a personal message.
SessPingStep(w, ok) ==
    /\ sess[w].pc = "active"
    /\ ok => w \in DOMAIN connection_info
    /\ LET r == Heartbeat(hashes, ttl, SessImage, sess[w].user.id, clock)
           g == IF ok THEN Reg ELSE DisconnectOp(Reg, w)
       IN  /\ hashes' = r.hashes /\ ttl' = r.ttl
           /\ hist' = HistAfter(sess[w].user.id, "heartbeat", r)
           /\ active_connections' = g.active_connections
           /\ connection_info' = g.connection_info
    /\ UNCHANGED <<clock, pret, opened, bcast, sret, sessVars, lockVars,
                   concVars, pconcVars>>

\* The client goes away: receive_json raises WebSocketDisconnect; the finally
\* block cancels the sweep task and calls manager.disconnect; the handler's
\* local variables are gone.
SessCloseStep(w) ==
    /\ sess[w].pc = "active"
    /\ LET r == DisconnectOp(Reg, w)
       IN  /\ active_connections' = r.active_connections
           /\ connection_info' = r.connection_info
    /\ sess' = [sess EXCEPT ![w] = Returned(@)]
    /\ UNCHANGED <<presenceVars, opened, bcast, sret, lockVars, concVars,
                   pconcVars>>

\* A sweep that broadcasts at every turn.
SweepBroadcastsAlways(removed_users) == TRUE

\* if removed_users:
SweepBroadcasts(removed_users) == removed_users # {}

\* One turn of cleanup_expired_users_periodically, the task created by the
\* handler of w: after the sleep, cleanup_expired_users and, if it removed
\* users, the active_users broadcast.
SessSweepStep(w) ==
    /\ sess[w].cleanup_task = "running"
    /\ LET c == CleanupExpiredUsers(hashes, ttl, SessImage, clock)
           a == GetActiveUsers(c.hashes, c.ttl, SessImage, clock)
       IN  IF SweepBroadcasts(c.users)
           THEN \E failing \in SUBSET Targets(SessImage) :
                  LET b == BroadcastToImage(Reg, SessImage, NoSocket, failing)
                  IN  /\ hashes' = a.hashes /\ ttl' = a.ttl
                      /\ active_connections' = b.reg.active_connections
                      /\ connection_info' = b.reg.connection_info
           ELSE /\ hashes' = c.hashes /\ ttl' = c.ttl
                /\ UNCHANGED <<active_connections, connection_info>>
    /\ UNCHANGED <<clock, hist, pret, opened, bcast, sret, sessVars, lockVars,
                   concVars, pconcVars>>

\* Time passes between two steps; Redis drops the keys whose expiry instant
\* is reached.
SessTickStep ==
    LET now == clock + SessTickSeconds
        gone == {k \in PresenceImages : ttl[k] # NoTTL /\ now >= ttl[k]}
    IN  /\ now <= MaxSessTicks * SessTickSeconds
        /\ clock' = now
        /\ hashes' = [k \in PresenceImages |->
                        IF k \in gone THEN [f \in PresenceUsers |-> NoValue]
                        ELSE hashes[k]]
        /\ ttl' = [k \in PresenceImages |-> IF k \in gone THEN NoTTL ELSE ttl[k]]
        /\ UNCHANGED <<hist, pret, regVars, sessVars, lockVars, concVars,
                       pconcVars>>

\* The steps as SpecSession takes them: nothing is recorded of what was sent.
SessOpen(w, token, active) == SessOpenStep(w, token, active) /\ UNCHANGED flowVars

SessSnapshot(w, ok) == SessSnapshotStep(w, ok) /\ UNCHANGED flowVars

SessHeartbeat(w) == SessHeartbeatStep(w) /\ UNCHANGED flowVars

SessLeave(w) == SessLeaveStep(w) /\ UNCHANGED flowVars

SessCursorMove(w) == SessCursorMoveStep(w) /\ UNCHANGED flowVars

SessPing(w, ok) == SessPingStep(w, ok) /\ UNCHANGED flowVars

SessClose(w) == SessCloseStep(w) /\ UNCHANGED flowVars

Sweep(w) == SessSweepStep(w) /\ UNCHANGED flowVars

SessTick == SessTickStep /\ UNCHANGED flowVars

InitSession == sess = [w \in Websockets |-> NoSession]

NextSession ==
    \/ \E w \in Websockets, token \in TokenKinds, active \in BOOLEAN :
          SessOpen(w, token, active)
    \/ \E w \in Websockets, ok \in BOOLEAN : SessSnapshot(w, ok)
    \/ \E w \in Websockets : SessHeartbeat(w)
    \/ \E w \in Websockets : SessLeave(w)
    \/ \E w \in Websockets : SessCursorMove(w)
    \/ \E w \in Websockets, ok \in BOOLEAN : SessPing(w, ok)
    \/ \E w \in Websockets : SessClose(w)
    \/ \E w \in Websockets : Sweep(w)
    \/ SessTick

----------------------------------------------------------------------------
(* The handlers observed: out is what the last step sent, owed[x] the      *)
(* users removed from presence, by a leave or by a timeout eviction, while *)
(* websocket x was registered and of whose removal x has not been told by  *)
(* an active_users message since.                                          *)

(* out: step and by name the step and the websocket whose handler or     *)
(* task took it, kind is the type of the message it sent ("none" if it    *)
(* sent none), to the websockets it sent that message to, turn changes at *)
(* each turn of a sweep task.                                              *)

\* The websockets opened, and the tokens they bring, in SpecFlow.
FlowSockets == {"ws1", "ws2"}
FlowTokens == {"invalid", "valid"}

NoOut == [step |-> "none", by |-> NoSocket, kind |-> "none", to |-> {},
          turn |-> FALSE]

Out(step, by, kind, to) ==
    [step |-> step, by |-> by, kind |-> kind, to |-> to, turn |-> out.turn]

\* The users with an entry for the image.
Present(hs) == {u \in PresenceUsers : HGET(hs, SessImage, u) # NoValue}

\* owed after a step in which the active_users list was sent to the
\* websockets in to and the users in joined joined: a websocket registered
\* during the step is owed the users the step removed; it is owed nothing
\* once it is unregistered, and no user who has joined again or whom a list
\* sent to it leaves out.
OwedAfter(to, joined, registered, removed, users) ==
    [x \in Websockets |->
        IF x \notin registered THEN {}
        ELSE LET o == (owed[x] \cup removed) \ joined
             IN  IF x \in to THEN {u \in o : u \in users} ELSE o]

OwedNext(to, joined) ==
    \E t \in {to}, j \in {joined}, registered \in {DOMAIN connection_info'},
       removed \in {Present(hashes) \ Present(hashes')},
       users \in {Present(hashes')} :
          owed' = OwedAfter(t, j, registered, removed, users)

\* A finally block that cancels every running task.
AfterFinallyAll(w) ==
    [x \in Websockets |->
        IF x = w THEN Returned(sess[x])
        ELSE IF sess[x].cleanup_task = "running"
             THEN [sess[x] EXCEPT !.cleanup_task = "cancelled"]
             ELSE sess[x]]

\* The handler's except and finally blocks: the handler cancels the task it
\* created and returns.
AfterFinally(w) == [sess EXCEPT ![w] = Returned(@)]

\* The except clauses of the sweep loop: the state of the task after exc was
\* raised in a turn.
SweepTaskEnds(exc) == "failed"

SweepTaskAfter(exc) ==
    IF exc = "CancelledError" THEN "cancelled" ELSE "running"

\* The presence calls of the message loop, and those of the sweep loop.
StoreCalls == {"heartbeat", "leave_image", "get_active_users"}
SweepCalls == {"cleanup_expired_users", "get_active_users"}

FlowOpen(w, token) ==
    /\ SessOpenStep(w, token, TRUE)
    /\ LET joined == sess'[w].pc = "joined"
           announce == joined /\ sess'[w].is_new_join
       IN  /\ out' = Out("open", w,
                         IF announce THEN "active_users" ELSE "none",
                         IF announce THEN sess'[w].announced ELSE {})
           /\ OwedNext(IF announce THEN sess'[w].announced ELSE {},
                               IF joined THEN {sess'[w].user.id} ELSE {})

FlowSnapshot(w, ok) ==
    /\ SessSnapshotStep(w, ok)
    /\ out' = Out("snapshot", w, "active_users", {w})
    /\ OwedNext({w}, {})

FlowHeartbeat(w) ==
    /\ SessHeartbeatStep(w)
    /\ out' = Out("heartbeat", w, "none", {})
    /\ OwedNext({}, {})

FlowLeave(w) ==
    /\ SessLeaveStep(w)
    /\ LET was_present == LeaveImage(hashes, ttl, SessImage,
                                     sess[w].user.id).result
           sends == LeaveBroadcasts(was_present)
           to == IF sends THEN Targets(SessImage) ELSE {}
       IN  /\ out' = Out("leave", w,
                         IF sends THEN "active_users" ELSE "none", to)
           /\ OwedNext(to, {})

FlowCursorMove(w) ==
    /\ SessCursorMoveStep(w)
    /\ out' = Out("cursor_move", w, "cursor_move", Targets(SessImage) \ {w})
    /\ OwedNext({}, {})

FlowPing(w, ok) ==
    /\ SessPingStep(w, ok)
    /\ out' = Out("ping", w, "pong", {w})
    /\ OwedNext({}, {})

FlowClose(w) ==
    /\ SessCloseStep(w)
    /\ out' = Out("close", w, "none", {})
    /\ OwedNext({}, {})

\* A message that is a JSON object with no "type" or with a type the loop
\* does not know: the else branch logs a warning.
FlowUnknownMessage(w) ==
    /\ sess[w].pc = "active"
    /\ out' = Out("unknown", w, "none", {})
    /\ UNCHANGED <<owed, presenceVars, regVars, sessVars, lockVars, concVars,
                   pconcVars>>

\* A message that is not JSON, or is JSON but not an object: receive_json or
\* data.get raises; except Exception logs, finally cancels the task and
\* disconnects.
FlowBadMessage(w) ==
    /\ sess[w].pc = "active"
    /\ LET r == DisconnectOp(Reg, w)
       IN  /\ active_connections' = r.active_connections
           /\ connection_info' = r.connection_info
    /\ sess' = AfterFinally(w)
    /\ UNCHANGED <<presenceVars, opened, bcast, sret, lockVars, concVars,
                   pconcVars>>
    /\ out' = Out("bad_message", w, "none", {})
    /\ OwedNext({}, {})

\* A message whose presence call raises (the store catches nothing): call is
\* the call that fails, at its first Redis command; get_active_users is
\* called after a leave_image that found the user.  except Exception logs,
\* finally cancels the task and disconnects.
FlowStoreError(w, call) ==
    /\ sess[w].pc = "active"
    /\ LET l == LeaveImage(hashes, ttl, SessImage, sess[w].user.id)
           r == DisconnectOp(Reg, w)
       IN  /\ IF call = "get_active_users"
              THEN /\ l.result
                   /\ hashes' = l.hashes /\ ttl' = l.ttl
                   /\ hist' = HistAfter(sess[w].user.id, "leave", l)
              ELSE UNCHANGED <<hashes, ttl, hist>>
           /\ active_connections' = r.active_connections
           /\ connection_info' = r.connection_info
    /\ sess' = AfterFinally(w)
    /\ UNCHANGED <<clock, pret, opened, bcast, sret, lockVars, concVars,
                   pconcVars>>
    /\ out' = Out("store_error", w, "none", {})
    /\ OwedNext({}, {})

FlowSweep(w) ==
    /\ SessSweepStep(w)
    /\ LET removed_users == CleanupExpiredUsers(hashes, ttl, SessImage,
                                                clock).users
           sends == SweepBroadcasts(removed_users)
           to == IF sends THEN Targets(SessImage) ELSE {}
       IN  /\ out' = [Out("sweep", w,
                          IF sends THEN "active_users" ELSE "none", to)
                        EXCEPT !.turn = ~@]
           /\ OwedNext(to, {})

\* A turn of the sweep task of w in which the presence call at raises, at
\* its first Redis command: except Exception logs and the loop goes on.
FlowSweepError(w, at) ==
    /\ sess[w].cleanup_task = "running"
    /\ LET c == CleanupExpiredUsers(hashes, ttl, SessImage, clock)
       IN  IF at = "get_active_users"
           THEN /\ c.users # {}
                /\ hashes' = c.hashes /\ ttl' = c.ttl
           ELSE UNCHANGED <<hashes, ttl>>
    /\ sess' = [sess EXCEPT ![w].cleanup_task = SweepTaskAfter("Exception")]
    /\ UNCHANGED <<clock, hist, pret, regVars, lockVars, concVars, pconcVars>>
    /\ out' = [Out("sweep_error", w, "none", {}) EXCEPT !.turn = ~@]
    /\ OwedNext({}, {})

FlowTick ==
    /\ SessTickStep
    /\ out' = Out("tick", NoSocket, "none", {})
    /\ UNCHANGED owed

InitFlow ==
    /\ out = NoOut
    /\ owed = [x \in Websockets |-> {}]

NextFlow ==
    \/ \E w \in FlowSockets, token \in FlowTokens : FlowOpen(w, token)
    \/ \E w \in FlowSockets, ok \in BOOLEAN : FlowSnapshot(w, ok)
    \/ \E w \in FlowSockets : FlowHeartbeat(w)
    \/ \E w \in FlowSockets : FlowLeave(w)
    \/ \E w \in FlowSockets : FlowCursorMove(w)
    \/ \E w \in FlowSockets, ok \in BOOLEAN : FlowPing(w, ok)
    \/ \E w \in FlowSockets : FlowClose(w)
    \/ \E w \in FlowSockets : FlowUnknownMessage(w)
    \/ \E w \in FlowSockets : FlowBadMessage(w)
    \/ \E w \in FlowSockets, call \in StoreCalls : FlowStoreError(w, call)
    \/ \E w \in FlowSockets : FlowSweep(w)
    \/ \E w \in FlowSockets, at \in SweepCalls : FlowSweepError(w, at)
    \/ FlowTick

\* A handler between two awaits goes on, and a sweep task that is not
\* cancelled takes its next turn.
FairFlow ==
    \A w \in FlowSockets :
        /\ WF_vars(\E ok \in BOOLEAN : FlowSnapshot(w, ok))
        /\ WF_vars(FlowSweep(w))

----------------------------------------------------------------------------
Init == InitLock /\ InitConc /\ InitPresence /\ InitPresenceConc
        /\ InitRegistry
        /\ InitSession
        /\ InitFlow

SpecLock == Init /\ [][NextLock]_vars

SpecLockConc == Init /\ [][NextLockConc]_vars

SpecPresence == Init /\ [][NextPresence]_vars

SpecPresenceConc == Init /\ [][NextPresenceConc]_vars

SpecRegistry == Init /\ [][NextRegistry]_vars

SpecSession == Init /\ [][NextSession]_vars

SpecFlow == Init /\ [][NextFlow]_vars

SpecFlowFair == Init /\ [][NextFlow]_vars /\ FairFlow

----------------------------------------------------------------------------
(* Properties of the lock service under SpecLock.                          *)

\* "expiresAt has passed" at instant t.
Passed(l, t) == l.expires_at < t

\* A step of SpecLock that is a call of op (a call leaves the clock alone and
\* records itself in ret; Tick changes the clock only).
Called(op) == utcnow' = utcnow /\ ret'.op = op

\* The row l with its lease renewed at instant t.
Renewed(l, t) == [l EXCEPT !.expires_at = t + LOCK_DURATION_MINUTES]

\* C1: after any sequence of Acquire, Release, Refresh, Get and CleanupExpired
\* calls, every image has at most one lock row, hence at most one live lock;
\* the calls themselves keep it so: no call ever tries to add a second row
\* (none ends in the table's IntegrityError).
C1_AtMostOneLockPerImage ==
    /\ \A i \in ImageIds :
          /\ Cardinality(RowsFor(locks, i)) <= 1
          /\ Cardinality({l \in RowsFor(locks, i) : ~Passed(l, utcnow)}) <= 1
    /\ ret.error # <<"IntegrityError">>

\* C1 witness: both images are locked, one of them by a user who has just
\* replaced another user's expired lock.
C1_Witness ==
    /\ \A i \in Images : Cardinality(RowsFor(locks, i)) = 1
    /\ ret.op = "acquire" /\ ret.ok
    /\ ret.existing # NoLock /\ ret.existing.locked_by # ret.user
    /\ ret.lock \in locks

\* C3: Acquire(R, U2) while R has an unexpired lock held by another user U1
\* returns ok=false with an error that names U1 and leaves the table, so the
\* lock's holder and expiresAt, exactly as it was.
C3_AcquireHeldByOther ==
    [][Called("acquire") =>
        \A l \in RowsFor(locks, ret'.image_id) :
            (l.locked_by # ret'.user /\ ~Passed(l, utcnow)) =>
                /\ ret'.ok = FALSE
                /\ ret'.error = <<"Image is locked by", Username[l.locked_by]>>
                /\ locks' = locks]_vars

\* C3 witness: an acquire was refused and the other user's lock is still there.
C3_Witness ==
    /\ ret.op = "acquire" /\ ~ret.ok
    /\ ret.existing # NoLock /\ ret.existing.locked_by # ret.user
    /\ ret.existing \in locks
    /\ ret.error = <<"Image is locked by", Username[ret.existing.locked_by]>>

\* C4: Acquire(R, U) by the holder of an unexpired lock on R returns ok=true,
\* keeps U as holder, creates no second row, and sets expiresAt to now + lease,
\* which is never earlier than the previous expiresAt.
C4_AcquireOwnLock ==
    [][Called("acquire") =>
        \A l \in RowsFor(locks, ret'.image_id) :
            (l.locked_by = ret'.user /\ ~Passed(l, utcnow)) =>
                /\ ret'.ok = TRUE
                /\ ret'.lock = Renewed(l, utcnow)
                /\ locks' = (locks \ {l}) \cup {Renewed(l, utcnow)}
                /\ Renewed(l, utcnow).expires_at >= l.expires_at]_vars

\* C4 witness: the holder re-acquired and the same row now expires later.
C4_Witness ==
    /\ ret.op = "acquire" /\ ret.ok
    /\ ret.existing # NoLock /\ ret.existing.locked_by = ret.user
    /\ ret.lock.id = ret.existing.id
    /\ ret.lock.expires_at > ret.existing.expires_at
    /\ RowsFor(locks, ret.image_id) = {ret.lock}

\* C5: once the expiresAt of U1's lock on R has passed, and the row is still in
\* the table (no Release, no reaper), Acquire(R, U2) by another user returns
\* ok=true and R's single lock is then U2's, expiring at now + lease.
C5_AcquireAfterExpiry ==
    [][Called("acquire") =>
        \A l \in RowsFor(locks, ret'.image_id) :
            (l.locked_by # ret'.user /\ Passed(l, utcnow)) =>
                /\ ret'.ok = TRUE
                /\ ret'.lock.locked_by = ret'.user
                /\ ret'.lock.expires_at = utcnow + LOCK_DURATION_MINUTES
                /\ RowsFor(locks', ret'.image_id) = {ret'.lock}
                /\ locks' \ {ret'.lock} = locks \ {l}]_vars

\* C5 witness: U2 holds the lock of an image whose expired lock was U1's, and
\* U1's row is gone.
C5_Witness ==
    /\ ret.op = "acquire" /\ ret.ok
    /\ ret.existing # NoLock /\ ret.existing.locked_by # ret.user
    /\ Passed(ret.existing, utcnow)
    /\ RowsFor(locks, ret.image_id) = {ret.lock}
    /\ ret.lock.locked_by = ret.user

\* C6: Release(R, U, force) deletes R's lock and succeeds iff U is the holder or
\* force is set and U is an administrator; otherwise, a lock being there, it
\* fails naming the holder and leaves the table unchanged; with no lock it
\* succeeds and changes nothing.
C6_Release ==
    [][Called("release") =>
        /\ RowsFor(locks, ret'.image_id) = {} => (ret'.ok = TRUE /\ locks' = locks)
        /\ \A l \in RowsFor(locks, ret'.image_id) :
              IF l.locked_by = ret'.user \/ (ret'.force /\ IsAdmin(ret'.user))
              THEN ret'.ok = TRUE /\ locks' = locks \ {l}
              ELSE /\ ret'.ok = FALSE
                   /\ ret'.error = <<"Cannot unlock - locked by", Username[l.locked_by]>>
                   /\ locks' = locks]_vars

\* C6 witness: a forced release by a user who is neither holder nor
\* administrator was refused and the lock is still there.
C6_Witness ==
    /\ ret.op = "release" /\ ret.force /\ ~IsAdmin(ret.user)
    /\ ~ret.ok
    /\ ret.existing \in locks /\ ret.existing.locked_by # ret.user

\* C7: Refresh(R, U) succeeds only when R has a lock whose holder is U, and
\* then sets its expiresAt to now + lease; with no lock, or another holder, it
\* fails and the table is unchanged (nothing created, nothing modified).
C7_Refresh ==
    [][Called("refresh") =>
        /\ ret'.ok = TRUE =>
              \E l \in RowsFor(locks, ret'.image_id) :
                  /\ l.locked_by = ret'.user
                  /\ locks' = (locks \ {l}) \cup {Renewed(l, utcnow)}
        /\ (\A l \in RowsFor(locks, ret'.image_id) : l.locked_by # ret'.user) =>
              (ret'.ok = FALSE /\ locks' = locks)]_vars

\* C7 witness: a refresh of an existing image that has no lock failed and
\* created none.
C7_Witness ==
    /\ ret.op = "refresh" /\ ~ret.ok /\ ret.image_id \in Images
    /\ ret.existing = NoLock
    /\ RowsFor(locks, ret.image_id) = {}
    /\ ret.error = <<"No lock exists">>

\* C8: Get(R) never returns a lock whose expiresAt has passed: it deletes it
\* and returns none; an unexpired lock is returned as stored and the table is
\* unchanged.  Acquire, Get and CleanupExpired agree on what is expired: each
\* removes a lock exactly when its expiresAt has passed.
C8_GetAndExpiry ==
    [][/\ Called("get") =>
            /\ RowsFor(locks, ret'.image_id) = {} =>
                  (ret'.lock = NoLock /\ locks' = locks)
            /\ \A l \in RowsFor(locks, ret'.image_id) :
                  IF Passed(l, utcnow)
                  THEN ret'.lock = NoLock /\ locks' = locks \ {l}
                  ELSE ret'.lock = l /\ locks' = locks
       /\ Called("cleanup") =>
            /\ locks' = {l \in locks : ~Passed(l, utcnow)}
            /\ ret'.count = Cardinality({l \in locks : Passed(l, utcnow)})
       /\ Called("acquire") =>
            \A l \in RowsFor(locks, ret'.image_id) :
                l.locked_by # ret'.user => (l \notin locks' <=> Passed(l, utcnow))
      ]_vars

\* C8 witness: Get found an expired lock, returned none, and the row is gone.
C8_Witness ==
    /\ ret.op = "get" /\ ret.existing # NoLock
    /\ Passed(ret.existing, utcnow)
    /\ ret.lock = NoLock /\ ~ret.ok
    /\ RowsFor(locks, ret.image_id) = {}

----------------------------------------------------------------------------
(* Properties of concurrent acquisition under SpecLockConc.                *)

\* The query of call a found no unexpired lock.
SawNoLiveLock(a) == a.existing = NoLock \/ Passed(a.existing, a.now)

\* Two finished calls that ran concurrently, by different users, on the same
\* image, neither of which found an unexpired lock.
Raced(p, q) ==
    /\ p # q
    /\ acq[p].pc = "done" /\ acq[q].pc = "done"
    /\ q \in acq[p].peers /\ p \in acq[q].peers
    /\ acq[p].image_id = acq[q].image_id
    /\ acq[p].user # acq[q].user
    /\ SawNoLiveLock(acq[p]) /\ SawNoLiveLock(acq[q])

\* C2: when two different users run Acquire on the same image concurrently
\* while no unexpired lock exists, at most one call returns ok=true and at most
\* one lock row exists afterwards.
C2_ConcurrentAcquire ==
    \A p, q \in Procs :
        Raced(p, q) =>
            /\ ~(acq[p].ok /\ acq[q].ok)
            /\ Cardinality(RowsFor(locks, acq[p].image_id)) <= 1

\* C2 witness: two such calls raced over an expired lock; one created the new
\* lock, the other was stopped by the table's unique constraint.
C2_Witness ==
    \E p, q \in Procs :
        /\ Raced(p, q)
        /\ acq[p].existing # NoLock /\ acq[q].existing = acq[p].existing
        /\ acq[p].ok /\ acq[p].lock \in locks
        /\ ~acq[q].ok /\ acq[q].error = <<"IntegrityError">>

----------------------------------------------------------------------------
(* Properties of the presence store under SpecPresence.                    *)

\* The history says that the user joined and that neither a Leave nor a
\* timeout has removed the entry since.
Joined(h) == h.seen # -1 /\ ~h.evicted

\* C9: for a user with no prior entry the first Join(R,U) returns
\* isNewJoin=true, and every further Join(R,U) with no Leave and no timeout
\* eviction in between returns false; right after such Joins ActiveUsers(R)
\* holds exactly one entry for U.
C9_ReconnectIdempotence ==
    /\ pret.op = "join" => (pret.result <=> ~Joined(pret.before))
    /\ pret.op = "active_users" =>
          \A u \in PresenceUsers :
              (Joined(hist[pret.image_id][u]) /\ hist[pret.image_id][u].seen = pret.at)
                  => Cardinality({e \in pret.users : e.user_id = u}) = 1

\* C10: if the last Join/Heartbeat for (R,U) was at T, then no ActiveUsers(R)
\* call made after T + timeout returns U, CleanupExpired(R) never reports U
\* twice, and once a CleanupExpired(R) call has been made after T + timeout U
\* has been reported (exactly once, not zero times).
C10_TimeoutEviction ==
    \A i \in PresenceImages, u \in PresenceUsers :
        LET h == hist[i][u]
        IN  /\ (/\ pret.op = "active_users" /\ pret.image_id = i
                /\ h.seen # -1 /\ pret.at - h.seen > timeout_seconds)
                   => \A e \in pret.users : e.user_id # u
            /\ h.reported <= 1
            /\ h.swept => h.reported = 1

\* C11: a presence entry is removed only by Leave or by timeout: while the
\* last Join or Heartbeat for (R,U) is no older than the timeout and U has
\* not left, Heartbeat(R,U) returns true and ActiveUsers(R) contains U,
\* however long ago the last Join on R was.
C11_RemovedOnlyByLeaveOrTimeout ==
    /\ (/\ pret.op = "heartbeat"
        /\ pret.before.seen # -1
        /\ pret.at - pret.before.seen <= timeout_seconds)
           => pret.result = TRUE
    /\ pret.op = "active_users" =>
          \A u \in PresenceUsers :
              LET h == hist[pret.image_id][u]
              IN  (h.seen # -1 /\ pret.at - h.seen <= timeout_seconds)
                      => \E e \in pret.users : e.user_id = u

\* Two finished join_image calls for the same (image, user) that ran
\* concurrently in different processes and both started with no entry stored.
JoinRaced(p, q) ==
    /\ p # q
    /\ pcalls[p].pc = "done" /\ pcalls[q].pc = "done"
    /\ pcalls[p].op = "join" /\ pcalls[q].op = "join"
    /\ q \in pcalls[p].peers /\ p \in pcalls[q].peers
    /\ pcalls[p].image_id = pcalls[q].image_id
    /\ pcalls[p].user_id = pcalls[q].user_id
    /\ ~pcalls[p].was_present /\ ~pcalls[q].was_present

\* C12: Join is an atomic check-and-set: of two Join(R,U) calls run
\* concurrently by different processes while no entry exists, exactly one
\* returns isNewJoin = true and the other returns false.
C12_ConcurrentJoin ==
    \A p, q \in Procs :
        JoinRaced(p, q) => (pcalls[p].result # pcalls[q].result)

\* The process that takes this step, running a call of one of ops.
StepOf(p, ops) == pcalls'[p] # pcalls[p] /\ pcalls[p].op \in ops

\* C13: Heartbeat never creates a presence entry: with no entry it returns
\* false and leaves the store unchanged, and an entry that does not exist
\* (never joined, left or evicted) comes into existence only by a Join, also
\* when a Heartbeat of another process overlaps the removal.
C13_HeartbeatNeverCreates ==
    [][\A i \in PresenceImages, u \in PresenceUsers :
          /\ (hashes[i][u] = NoValue /\ hashes'[i][u] # NoValue)
                => \E p \in Procs :
                      /\ StepOf(p, {"join"})
                      /\ pcalls[p].image_id = i /\ pcalls[p].user_id = u
          /\ \A p \in Procs :
                (/\ pcalls'[p] # pcalls[p]
                 /\ pcalls'[p].op = "heartbeat"
                 /\ pcalls'[p].image_id = i /\ pcalls'[p].user_id = u
                 /\ hashes[i][u] = NoValue /\ pcalls[p].pc \in {"idle", "done"})
                    => /\ pcalls'[p].pc = "done" /\ pcalls'[p].result = FALSE
                       /\ hashes' = hashes /\ ttl' = ttl]_vars

\* C14: eviction deletes only stale entries: when a command of ActiveUsers or
\* CleanupExpired deletes the entry of (R,U), the last_seen stored at that
\* moment is older than the timeout, so a Join or Heartbeat that completed
\* while the eviction pass was in progress is not lost.
C14_EvictionOnlyStale ==
    [][\A i \in PresenceImages, u \in PresenceUsers :
          (/\ hashes[i][u] # NoValue /\ hashes'[i][u] = NoValue
           /\ \E p \in Procs : StepOf(p, {"active_users", "cleanup"}))
              => clock - Loads(hashes[i][u]).last_seen > timeout_seconds]_vars

\* C15: broadcast exclusion: Broadcast(R, msg, excluding=C) sends msg exactly
\* once to every connection registered on R when the call starts (so to each
\* one whose send succeeds), never to C, never to a connection of another
\* resource, and a failed send does not keep the others from being sent to.
C15_BroadcastExclusion ==
    /\ \A w \in Websockets :
          /\ bcast.sends[w] <= 1
          /\ bcast.sends[w] > 0 => w \in bcast.at_start /\ w # bcast.exclude
          /\ w \in bcast.delivered => bcast.sends[w] = 1
    /\ bcast.pc = "done" =>
          \A w \in bcast.at_start \ {bcast.exclude} : bcast.sends[w] = 1

\* C15 witness: a finished broadcast with an excluded connection on the
\* image, one send that failed and one that succeeded.
C15_Witness ==
    /\ bcast.pc = "done"
    /\ bcast.exclude \in bcast.at_start
    /\ bcast.sends[bcast.exclude] = 0
    /\ bcast.dead_connections # {}
    /\ bcast.delivered # {}

\* The step in which broadcast_to_image returns after its loop.
BroadcastReturns == bcast.pc = "sending" /\ bcast'.pc = "done"

\* The information websocket w was registered with on the broadcast's image.
InfoAtStart(w) == Info(bcast.image_id, SocketUser[w], Username[SocketUser[w]])

\* The connections of a broadcast that were sent to successfully or excluded.
Spared == bcast.delivered \cup (bcast.at_start \cap {bcast.exclude})

\* After the step, w is registered as it was.
StillRegistered(w, info) ==
    /\ w \in DOMAIN connection_info' /\ connection_info'[w] = info
    /\ info.image_id \in DOMAIN active_connections'
    /\ w \in active_connections'[info.image_id]

\* After the step, w is not registered.
Unregistered(w) ==
    /\ w \notin DOMAIN connection_info'
    /\ \A i \in DOMAIN active_connections' : w \notin active_connections'[i]

\* The step is a send_personal_message call.
SendToReturns == sret' # sret

\* C16 as stated: when Broadcast or SendTo returns, every connection whose
\* send failed in the call is no longer registered and every connection whose
\* send succeeded, or that was excluded, is still registered with unchanged
\* resource and user information.
C16_AsStated ==
    [][/\ BroadcastReturns =>
            /\ \A w \in bcast.dead_connections : Unregistered(w)
            /\ \A w \in Spared : StillRegistered(w, InfoAtStart(w))
       /\ SendToReturns =>
            IF sret'.ok
            THEN StillRegistered(sret'.websocket, connection_info[sret'.websocket])
            ELSE Unregistered(sret'.websocket)]_vars

\* C16: a send failure is an implicit disconnect of that one peer: when
\* Broadcast or SendTo returns, every connection whose send failed in the call
\* is no longer registered, and every connection whose send succeeded, or that
\* was excluded, is still registered with unchanged resource and user
\* information unless another coroutine disconnected it during the call.
C16_ImplicitDisconnect ==
    [][/\ BroadcastReturns =>
            /\ \A w \in bcast.dead_connections : Unregistered(w)
            /\ \A w \in Spared \ bcast.left : StillRegistered(w, InfoAtStart(w))
       /\ SendToReturns =>
            IF sret'.ok
            THEN StillRegistered(sret'.websocket, connection_info[sret'.websocket])
            ELSE Unregistered(sret'.websocket)]_vars

\* C16 witness: a broadcast has returned after a failed and a successful
\* send; the failed connection is gone, the successful and the excluded one
\* are registered.
C16_Witness ==
    /\ bcast.pc = "done"
    /\ bcast.dead_connections # {} /\ bcast.delivered # {}
    /\ bcast.dead_connections \cap DOMAIN connection_info = {}
    /\ bcast.delivered \subseteq DOMAIN connection_info
    /\ bcast.exclude \in bcast.at_start \cap DOMAIN connection_info

\* The tokens that do not verify or resolve to no user.
BadTokens == {"invalid", "nosub", "unknown"}

\* The websocket was never registered and its handler never joined, never
\* broadcast, never sent a snapshot and started no sweep task.
NeverActive(w) ==
    /\ w \notin opened
    /\ w \notin DOMAIN connection_info
    /\ \A i \in DOMAIN active_connections : w \notin active_connections[i]
    /\ sess[w].user = NoRow
    /\ sess[w].announced = {} /\ sess[w].snapshots = 0
    /\ sess[w].cleanup_task = "none"

\* C17: a connection opened with a token that is invalid or resolves to no
\* known user never reaches Active: it is closed with an explicit rejection
\* code, never registered, never joined to presence, causes no broadcast and
\* starts no sweep task.
C17_RejectedNeverActive ==
    \A w \in Websockets :
        sess[w].token \in BadTokens =>
            /\ sess[w].pc = "closed"
            /\ sess[w].close_code = PolicyViolation
            /\ NeverActive(w)

\* C17 witness: one connection was rejected for each kind of bad token.
C17_Witness ==
    \A t \in BadTokens :
        \E w \in Websockets :
            /\ sess[w].token = t /\ sess[w].pc = "closed"
            /\ sess[w].close_code = PolicyViolation

\* C18: a session enters Active only for a known and enabled user: a
\* connection whose token resolves to an existing but disabled user is
\* rejected with an explicit close code and is never registered or joined.
C18_DisabledUserRejected ==
    \A w \in Websockets :
        (sess[w].user # NoRow /\ ~sess[w].user.is_active) =>
            /\ sess[w].pc = "closed"
            /\ sess[w].close_code = PolicyViolation
            /\ w \notin opened

\* The step in which the handler of w registers and joins.
Activates(w) == sess[w].pc = "new" /\ sess'[w].pc = "joined"

\* C19: when a session becomes Active the other connections of the resource
\* are sent an active_users broadcast if and only if Join returned
\* isNewJoin = true, the joining connection is not sent that broadcast, and
\* it is sent exactly one active_users snapshot; so a user who reconnects
\* within the timeout without having left causes no active_users message to
\* any other viewer.
C19_JoinBroadcast ==
    [][\A w \in Websockets :
          /\ Activates(w) =>
                /\ sess'[w].announced =
                      IF sess'[w].is_new_join THEN Targets(SessImage) \ {w}
                      ELSE {}
                /\ w \notin sess'[w].announced
                /\ sess'[w].snapshots = 0
                /\ sess'[w].fresh => sess'[w].announced = {}
          /\ (sess[w].pc = "joined" /\ sess'[w].pc = "active")
                => sess'[w].snapshots = 1
          /\ (sess[w].pc = "active" /\ sess'[w].pc = "active")
                => sess'[w].snapshots = 1]_vars

\* C20: at most one periodic sweep task runs per resource in a process at any
\* time, whatever the number of connections on the resource.
C20_OneSweepPerResource ==
    Cardinality({w \in Websockets : sess[w].cleanup_task = "running"}) <= 1

----------------------------------------------------------------------------
(* Properties of the connection manager under SpecRegistry, continued.     *)

\* The connections whose recorded info names image_id.
RecordedFor(image_id) ==
    {w \in DOMAIN connection_info : connection_info[w].image_id = image_id}

\* C29: in every state reachable through connect, disconnect,
\* broadcast_to_image and send_personal_message, a connection is in the set
\* of an image if and only if its recorded info names that image, no image
\* maps to an empty set, so that get_connection_count is the number of
\* connections recorded for the image, and disconnect of a connection that
\* is unknown or already disconnected changes nothing.
C29_RegistryConsistent ==
    /\ \A i \in RegImages :
          /\ Targets(i) = RecordedFor(i)
          /\ GetConnectionCount(Reg, i) = Cardinality(RecordedFor(i))
    /\ DOMAIN active_connections \subseteq RegImages
    /\ \A i \in DOMAIN active_connections : active_connections[i] # {}
    /\ \A w \in Websockets \ DOMAIN connection_info :
          DisconnectOp(Reg, w) = Reg

\* Every websocket was connected; two have been disconnected since, one of
\* them the last of its image.
C29_Witness ==
    /\ opened = Websockets
    /\ DOMAIN connection_info = {"ws2"}
    /\ DOMAIN active_connections = {"img2"}

----------------------------------------------------------------------------
(* Properties of the handlers and their sweep tasks under SpecFlow.        *)

\* The websockets whose sweep task is running.
Sweeping == {x \in Websockets : sess[x].cleanup_task = "running"}

\* C21: closing one connection never stops the periodic sweeping for the
\* connections that remain: whenever a session of the image is Active past
\* its start-up, a sweep task for the image is running, whatever the
\* interleaving of connects and disconnects.
C21_SweepingContinues ==
    \A w \in Websockets : sess[w].pc = "active" => Sweeping # {}

\* The handler of ws1 was Active and has returned, on an exception raised
\* while it handled a message; that of ws2 is Active.
C21_Witness ==
    /\ out.step \in {"bad_message", "store_error"}
    /\ out.by = "ws1"
    /\ sess["ws1"].cleanup_task = "cancelled"
    /\ sess["ws2"].pc = "active"

\* C30: on every path by which a session that reached Active ends (client
\* disconnect, failed send, exception while handling a message) its
\* connection is absent from the registry and the sweep task it started is
\* cancelled; so once every session of the image is closed no sweep task
\* for it is running.
C30_NoLeakOnClose ==
    /\ \A w \in Websockets :
          sess[w].pc = "closed" =>
             /\ w \notin DOMAIN connection_info
             /\ w \notin Targets(SessImage)
             /\ sess[w].cleanup_task \in {"none", "cancelled"}
    /\ (\A w \in FlowSockets : sess[w].pc = "closed") => Sweeping = {}

\* Both sessions were Active and have ended, the last one on an exception
\* raised by a presence call.
C30_Witness ==
    /\ out.step = "store_error"
    /\ \A w \in FlowSockets :
          sess[w].pc = "closed" /\ sess[w].cleanup_task = "cancelled"

\* The step is the one named step, taken by the handler or the task of w.
FlowStep(step, w) == out'.step = step /\ out'.by = w

\* The step leaves the presence store and the registry as they were.
NothingTouched ==
    UNCHANGED <<hashes, ttl, active_connections, connection_info>>

C28_SweepSurvivesErrors ==
    [][\A w \in FlowSockets :
          /\ FlowStep("sweep_error", w) =>
                /\ sess'[w].cleanup_task = "running"
                /\ sess'[w].pc = sess[w].pc
          /\ (sess[w].cleanup_task = "running"
                 /\ sess'[w].cleanup_task # "running") =>
                /\ sess'[w].cleanup_task = "cancelled"
                /\ sess'[w].pc = "closed"
                /\ out'.by = w]_vars

\* get_active_users has just raised in a turn of the task of ws1, after
\* cleanup_expired_users removed a user; the task is running.
C28_Witness ==
    /\ out.step = "sweep_error"
    /\ out.by = "ws1"
    /\ sess["ws1"].cleanup_task = "running"
    /\ \E u \in PresenceUsers : u \in owed["ws1"]

\* C23: active_users is sent on any membership change: whenever a user is
\* removed from the presence of the image, by an explicit leave or by a
\* timeout eviction, whichever operation performs the eviction, every
\* connection registered on the image at that time is subsequently sent an
\* active_users message carrying the list without that user (unless it is
\* unregistered, or the user joins again, before).
C23_RemovalsAnnounced ==
    \A x \in FlowSockets, u \in PresenceUsers :
        (u \in owed[x]) ~> (u \notin owed[x])

\* The websocket was registered before the step and is registered after it.
StaysRegistered(w) ==
    w \in DOMAIN connection_info => w \in DOMAIN connection_info'

\* C24: a presence-store error does not end the message loop: when a call
\* of the presence store (heartbeat, leave_image, get_active_users) raises
\* while an Active session handles a message, the session is still Active
\* and the connection still registered afterwards, ready for the next
\* message.
C24_StoreErrorSurvived ==
    [][\A w \in FlowSockets :
          FlowStep("store_error", w) =>
             /\ sess'[w].pc = "active"
             /\ sess'[w].cleanup_task = "running"
             /\ StaysRegistered(w)]_vars

\* C25: a malformed message (not JSON, or not an object with a type) is
\* ignored and never ends the session: the session is still Active and the
\* connection still registered after it; and a well-formed message of an
\* unknown type changes neither presence nor registry and causes no
\* outbound message.
C25_BadMessagesIgnored ==
    [][\A w \in FlowSockets :
          /\ FlowStep("bad_message", w) =>
                /\ sess'[w].pc = "active"
                /\ sess'[w].cleanup_task = "running"
                /\ StaysRegistered(w)
          /\ FlowStep("unknown", w) =>
                /\ NothingTouched
                /\ UNCHANGED sess
                /\ out'.kind = "none"
                /\ out'.to = {}]_vars

\* The entry of u is, at time now, older than the timeout.
TimedOut(u, now) ==
    /\ HGET(hashes, SessImage, u) # NoValue
    /\ \/ ActiveTimedOut(HGET(hashes, SessImage, u), now)
       \/ CleanupTimedOut(HGET(hashes, SessImage, u), now)

\* The step changes the entry of u by a join, a heartbeat or a leave of u,
\* or removes it when it has timed out.
ByPresenceOperation(u) ==
    \/ /\ out'.step \in {"open", "heartbeat", "ping", "leave", "store_error"}
       /\ out'.by \in FlowSockets
       /\ SocketUser[out'.by] = u
    \/ /\ HGET(hashes', SessImage, u) = NoValue
       /\ TimedOut(u, clock')

\* C26: the lifecycle of a connection never touches presence: a handler
\* that ends (client gone, bad message, failed send) and a connection that
\* a failed send unregisters leave every presence entry, also the closing
\* user's own, unchanged; a presence entry changes only through a join, a
\* heartbeat, a leave or a timeout eviction.
C26_LifecycleLeavesPresence ==
    [][/\ out'.step \in {"close", "bad_message", "cursor_move"} =>
             UNCHANGED <<hashes, ttl>>
       /\ \A u \in PresenceUsers :
             HGET(hashes', SessImage, u) # HGET(hashes, SessImage, u) =>
                ByPresenceOperation(u)]_vars

====
